---------------------------- MODULE Spec2Model ----------------------------
(***************************************************************************)
(* A model of the bo text editor: the Document buffer (src/src/document.rs) *)
(* and the Editor state machine (src/src/editor.rs).                        *)
(*                                                                          *)
(* Text is a sequence of one-character strings, a row is such a sequence,   *)
(* the rows of a document are a sequence of rows.  Rust indices are         *)
(* zero-based: row index y of the code is rows[y + 1] here.  A file is the  *)
(* sequence of the characters written to it, "\n" included.                 *)
(*                                                                          *)
(* A Rust panic (an unwrap of None, an out-of-range Vec operation, a        *)
(* String::truncate off a char boundary) ends the process: the model sets   *)
(* panicked and takes no further step.                                      *)
(***************************************************************************)
EXTENDS Integers, Sequences, FiniteSets, TLC

VARIABLES
    \* Document (document.rs:9-12)
    document,                   \* [rows, filename]
    \* the files on disk: path -> content
    fs,
    \* Editor (editor.rs:63-82)
    should_quit,
    cursor_position,            \* [x, y], screen relative
    offset,                     \* [rows, columns]
    message,
    mode,
    command_buffer,
    normal_command_buffer,
    mouse_event_buffer,
    search_matches,
    current_search_match_index,
    alternate_screen,
    last_saved_hash,
    unsaved_edits,
    row_prefix_length,
    config,                     \* [display_line_numbers, display_stats]
    \* the process has panicked
    panicked,
    \* history: the last operation or event, and how the document was made
    last_op,
    ctor

vars == << document, fs, should_quit, cursor_position, offset, message, mode,
           command_buffer, normal_command_buffer, mouse_event_buffer,
           search_matches, current_search_match_index, alternate_screen,
           last_saved_hash, unsaved_edits, row_prefix_length, config,
           panicked, last_op, ctor >>

editor_vars == << should_quit, cursor_position, offset, message, mode,
                  command_buffer, normal_command_buffer, mouse_event_buffer,
                  search_matches, current_search_match_index,
                  alternate_screen, last_saved_hash, unsaved_edits,
                  row_prefix_length, config >>

-----------------------------------------------------------------------------
(* Bounds of the model *)

\* the Document-level model: a document's rows plus its characters, and
\* the largest index passed to a mutator
DocMaxText == 4
DocMaxIdx == 3

\* the editor's document: its rows plus its characters
MaxText == 4
\* insert-mode events between two saves, where the swap file is out of reach
MaxEdits == 3
\* digits of a pending repetition count
MaxDigits == 2
\* pending mouse presses
MaxClicks == 1
\* rows of the documents the motions are tried on
ViewMaxRows == 7
\* characters of the longest row the motions are tried on
ViewMaxLen == 6
\* lines of the files edited under a scrolling view, and the edits made
EditMaxRows == 6
EditMaxEdits == 2
\* lines of the files searched
SearchMaxRows == 3
\* characters of the files saved and opened again
FileMaxText == 3

-----------------------------------------------------------------------------
(* Helpers on sequences and saturating usize arithmetic *)

Min(a, b) == IF a < b THEN a ELSE b
Max(a, b) == IF a > b THEN a ELSE b

\* usize::saturating_sub
SatSub(a, b) == IF a > b THEN a - b ELSE 0

\* the first n elements, and what follows them (Iterator::take / skip)
Take(s, n) == SubSeq(s, 1, Min(n, Len(s)))
Skip(s, n) == SubSeq(s, Min(n, Len(s)) + 1, Len(s))

\* all sequences over S of length at most n
SeqsUpTo(S, n) == UNION { [1..k -> S] : k \in 0..n }

\* the result of a Vec operation: the vector, and whether the call panicked
Done(rows) == [rows |-> rows, panic |-> FALSE]
Panic(rows) == [rows |-> rows, panic |-> TRUE]

\* Vec::remove(index): panics when index is out of bounds
VecRemove(s, i) ==
    IF i < Len(s) THEN Done(Take(s, i) \o Skip(s, i + 1)) ELSE Panic(s)

\* Vec::insert(index, element): panics when index > len
VecInsert(s, i, e) ==
    IF i <= Len(s) THEN Done(Take(s, i) \o <<e>> \o Skip(s, i)) ELSE Panic(s)

-----------------------------------------------------------------------------
(* Row: one line of text.  row.rs is not in this source tree; these follow   *)
(* the operations section 4.1 of the specification describes.               *)

EmptyRow == << >>

IsWhitespace(c) == c \in {" ", "\t"}

\* Row::len: the number of graphemes
RowLen(r) == Len(r)

\* Row::insert(index, c): at or beyond the end the character is appended
RowInsert(r, x, c) ==
    IF x >= Len(r) THEN Append(r, c) ELSE Take(r, x) \o <<c>> \o Skip(r, x)

\* Row::delete(index): no-op when out of range
RowDelete(r, x) ==
    IF x >= Len(r) THEN r ELSE Take(r, x) \o Skip(r, x + 1)

\* Row::append(other)
RowAppend(r, other) == r \o other

\* Row::split(at): the row keeps the first `at` graphemes, the rest is returned
RowSplit(r, at) == [kept |-> Take(r, at), rest |-> Skip(r, at)]

\* Row::trim_end_inplace: drop the trailing whitespace
RECURSIVE RowTrimEnd(_)
RowTrimEnd(r) ==
    IF Len(r) > 0 /\ IsWhitespace(r[Len(r)])
    THEN RowTrimEnd(SubSeq(r, 1, Len(r) - 1))
    ELSE r

-----------------------------------------------------------------------------
(* Document (document.rs) *)

NoName == << >>

\* Document::default
DocumentDefault == [rows |-> << EmptyRow >>, filename |-> NoName]

\* Document::new(rows, filename)
DocumentNew(rows, filename) == [rows |-> rows, filename |-> filename]

\* Document::new_empty(filename)
DocumentNewEmpty(filename) == [rows |-> << EmptyRow >>, filename |-> filename]

\* Document::num_rows / last_line_number
num_rows(rows) == Len(rows)
last_line_number(rows) == num_rows(rows)

\* Document::is_empty
is_empty(rows) == Len(rows) = 0

\* Document::trim_trailing_spaces
trim_trailing_spaces(rows) == [i \in 1..Len(rows) |-> RowTrimEnd(rows[i])]

\* Document::insert(c, x, y)
DocInsert(rows, c, x, y) ==
    IF y >= num_rows(rows)
    THEN Done(Append(rows, RowInsert(EmptyRow, 0, c)))
    ELSE Done([rows EXCEPT ![y + 1] = RowInsert(@, x, c)])

\* delete without the y > 0 test of the join: at the start of the first row
\* the row is removed and there is no previous row to take its text
DocDelete_JoinsTheFirstRow(rows, x, from_x, y) ==
    IF y >= num_rows(rows) THEN Done(rows)
    ELSE IF x = 0 /\ from_x = 0
         THEN VecRemove(rows, y)
         ELSE Done([rows EXCEPT ![y + 1] = RowDelete(@, x)])

\* Document::delete(x, from_x, y)
DocDelete(rows, x, from_x, y) ==
    IF y >= num_rows(rows) THEN Done(rows)
    ELSE IF x = 0 /\ from_x = 0 /\ y > 0
         THEN LET removed == VecRemove(rows, y)
                  current_row == rows[y + 1]
              IN  IF removed.panic THEN removed
                  ELSE IF y - 1 < Len(removed.rows)
                       THEN Done([removed.rows EXCEPT
                                     ![y] = RowAppend(@, current_row)])
                       ELSE removed
         ELSE Done([rows EXCEPT ![y + 1] = RowDelete(@, x)])

\* Document::insert_newline(x, y)
DocInsertNewline(rows, x, y) ==
    IF y > num_rows(rows) THEN Done(rows)
    ELSE IF y < Len(rows)
         THEN IF x < SatSub(RowLen(rows[y + 1]), 1)
              THEN LET split == RowSplit(rows[y + 1], x)
                   IN  VecInsert([rows EXCEPT ![y + 1] = split.kept],
                                 y + 1, split.rest)
              ELSE IF y = num_rows(rows) \/ y + 1 = num_rows(rows)
                   THEN Done(Append(rows, EmptyRow))
                   ELSE VecInsert(rows, y + 1, EmptyRow)
         ELSE Done(rows)

\* delete_row without the branch that keeps the only row
DocDeleteRow_RemovesTheOnlyRow(rows, y) ==
    IF y > num_rows(rows) THEN Done(rows)
    ELSE IF y < Len(rows) THEN VecRemove(rows, y) ELSE Done(rows)

\* Document::delete_row(y)
DocDeleteRow(rows, y) ==
    IF y > num_rows(rows) THEN Done(rows)
    ELSE IF num_rows(rows) = 1
         THEN Done([rows EXCEPT ![1] = EmptyRow])
         ELSE IF y < Len(rows) THEN VecRemove(rows, y) ELSE Done(rows)

-----------------------------------------------------------------------------
(* Files *)

\* the bytes save writes: every row followed by "\n" (document.rs:107-110)
RECURSIVE WriteRows(_)
WriteRows(rows) ==
    IF rows = << >> THEN << >>
    ELSE Head(rows) \o << "\n" >> \o WriteRows(Tail(rows))

\* str::lines: split at "\n", a "\r" right before it is dropped, and a final
\* line needs no terminator
RECURSIVE LinesFrom(_, _)
LinesFrom(s, cur) ==
    IF s = << >>
    THEN IF cur = << >> THEN << >> ELSE << cur >>
    ELSE IF Head(s) = "\n"
         THEN LET line == IF Len(cur) > 0 /\ cur[Len(cur)] = "\r"
                          THEN SubSeq(cur, 1, Len(cur) - 1) ELSE cur
              IN  << line >> \o LinesFrom(Tail(s), << >>)
         ELSE LinesFrom(Tail(s), Append(cur, Head(s)))

lines(s) == LinesFrom(s, << >>)

\* Path::is_file
is_file(files, path) == path \in DOMAIN files

\* Document::swap_filename: .<name>.swp beside the file; the unwrap of
\* parent() panics on the empty path
swap_filename(filename) == << "." >> \o filename \o << ".", "s", "w", "p" >>
swap_filename_panics(filename) == filename = << >>

\* variant of Document::open that never looks for the swap file
DocumentOpen_ReadsTheFileItself(files, filename, read_ok) ==
    IF ~ is_file(files, filename)
    THEN [ok |-> TRUE, doc |-> DocumentNewEmpty(filename)]
    ELSE IF read_ok
         THEN [ok |-> TRUE,
               doc |-> [rows |-> lines(files[filename]), filename |-> filename]]
         ELSE [ok |-> FALSE, doc |-> DocumentDefault]

\* Document::open(filename); read_ok: fs::read_to_string succeeds
DocumentOpen(files, filename, read_ok) ==
    IF ~ is_file(files, filename)
    THEN [ok |-> TRUE, doc |-> DocumentNewEmpty(filename)]
    ELSE LET from == IF is_file(files, swap_filename(filename))
                     THEN swap_filename(filename) ELSE filename
         IN  IF read_ok
             THEN [ok |-> TRUE,
                   doc |-> [rows |-> lines(files[from]), filename |-> filename]]
             ELSE [ok |-> FALSE, doc |-> DocumentDefault]

\* a file system with one more file written
WriteFile(files, path, content) ==
    [p \in DOMAIN files \cup {path} |-> IF p = path THEN content ELSE files[p]]

\* a file system with one file removed
RemoveFile(files, path) == [p \in DOMAIN files \ {path} |-> files[p]]

NoFiles == [p \in {} |-> << >>]

-----------------------------------------------------------------------------
(* Characters and keys (termion::event::Key) *)

\* two characters outside ASCII, named by their code points: U+00E9 takes
\* two bytes in UTF-8; U+00B2 (superscript two) takes two bytes and is
\* numeric for char::is_numeric, yet no digit for str::parse
U_E9 == "U+00E9"
U_B2 == "U+00B2"
NonAscii == { U_E9, U_B2 }

AsciiDigits == { "0", "1", "2", "3", "4", "5", "6", "7", "8", "9" }

\* the number of bytes of a character in a String
ByteLen(c) == IF c \in NonAscii THEN 2 ELSE 1

RECURSIVE ByteLenOf(_)
ByteLenOf(s) == IF s = << >> THEN 0 ELSE ByteLen(Head(s)) + ByteLenOf(Tail(s))

\* char::is_numeric
is_numeric(c) == c \in AsciiDigits \cup { U_B2 }

DigitValue(c) ==
    CASE c = "0" -> 0 [] c = "1" -> 1 [] c = "2" -> 2 [] c = "3" -> 3
      [] c = "4" -> 4 [] c = "5" -> 5 [] c = "6" -> 6 [] c = "7" -> 7
      [] c = "8" -> 8 [] c = "9" -> 9 [] OTHER -> 0

RECURSIVE DigitsValue(_)
DigitsValue(s) ==
    IF s = << >> THEN 0
    ELSE DigitsValue(SubSeq(s, 1, Len(s) - 1)) * 10 + DigitValue(s[Len(s)])

\* the decimal digits of usize::MAX, 18446744073709551615
UsizeMaxDigits == << 1, 8, 4, 4, 6, 7, 4, 4, 0, 7, 3, 7, 0, 9, 5, 5, 1, 6, 1, 5 >>

RECURSIVE StripZeros(_)
StripZeros(s) ==
    IF s # << >> /\ Head(s) = "0" THEN StripZeros(Tail(s)) ELSE s

RECURSIVE LexLeq(_, _)
LexLeq(a, b) ==
    IF a = << >> THEN TRUE
    ELSE IF Head(a) < Head(b) THEN TRUE
         ELSE IF Head(a) > Head(b) THEN FALSE
              ELSE LexLeq(Tail(a), Tail(b))

FitsUsize(s) ==
    LET d == StripZeros(s)
    IN  \/ Len(d) < Len(UsizeMaxDigits)
        \/ /\ Len(d) = Len(UsizeMaxDigits)
           /\ LexLeq([i \in 1..Len(d) |-> DigitValue(d[i])], UsizeMaxDigits)

\* str::parse::<usize>: Err on the empty string, on a character that is no
\* ASCII digit, and on a value above usize::MAX
ParseUsize(s) ==
    [ok |-> s # << >> /\ (\A i \in 1..Len(s) : s[i] \in AsciiDigits)
                      /\ FitsUsize(s),
     value |-> DigitsValue(s)]

KeyChar(c) == [kind |-> "Char", c |-> c]
KeyEsc == [kind |-> "Esc", c |-> ""]
KeyBackspace == [kind |-> "Backspace", c |-> ""]
\* any key the editor has no binding for (an arrow, a function key)
KeyOther == [kind |-> "Other", c |-> ""]
KeyEnter == KeyChar("\n")
KeyTab == KeyChar("\t")

-----------------------------------------------------------------------------
(* Constants of editor.rs, and of the modules it uses *)

COMMAND_PREFIX == ":"
SEARCH_PREFIX == "/"
LINE_NUMBER_OFFSET == 4
START_X == LINE_NUMBER_OFFSET
SPACES_PER_TAB == 4
SWAP_SAVE_EVERY == 100
\* unsaved_edits is a u8
U8Max == 255

\* the command vocabulary (commands.rs is not in this source tree; the
\* tokens are those the specification names)
FORCE_QUIT == << "q", "!" >>
QUIT == << "q" >>
LINE_NUMBERS == << "l", "n" >>
STATS == << "s", "t", "a", "t", "s" >>
HELP == << "h", "e", "l", "p" >>
SAVE == << "w" >>
SAVE_AND_QUIT == << "w", "q" >>
DEBUG == << "d", "e", "b", "u", "g" >>
OPEN == << "o", "p", "e", "n" >>
OPEN_SHORT == << "o" >>
NEW_CMD == << "n", "e", "w" >>

\* the terminal (Console is not in this source tree): the text area's size
TermHeight == 4
TermWidth == 4
\* Console::middle_of_screen_line_number
middle_of_screen_line_number == TermHeight \div 2

\* the messages of the message bar
NoMessage == << >>
MsgNoFileName == << "No file name" >>
MsgSaved == << "File successfully saved" >>
MsgWriteError == << "Error writing to file!" >>
MsgBufferSaved(name) == << "Buffer saved to", name >>
MsgRenamed(old, name) == << "successfully renamed to", old, name >>
MsgUnsaved == << "Unsaved changes! Run :q! to override" >>
MsgUnknown(token) == << "Unknown command", token >>
MsgNotFound(name) == << "not found", name >>
MsgMatches(n) == << "matches", n >>
MsgMatch(i, n) == << "Match", i, n >>
MsgHelp == << "Press q to quit" >>

-----------------------------------------------------------------------------
(* The Editor as a value: the methods of editor.rs map an editor to an      *)
(* editor.  fs is carried along, the methods that save write to it.         *)

Ed == [ document |-> document, fs |-> fs, should_quit |-> should_quit,
        cursor_position |-> cursor_position, offset |-> offset,
        message |-> message, mode |-> mode,
        command_buffer |-> command_buffer,
        normal_command_buffer |-> normal_command_buffer,
        mouse_event_buffer |-> mouse_event_buffer,
        search_matches |-> search_matches,
        current_search_match_index |-> current_search_match_index,
        alternate_screen |-> alternate_screen,
        last_saved_hash |-> last_saved_hash,
        unsaved_edits |-> unsaved_edits,
        row_prefix_length |-> row_prefix_length,
        config |-> config, panicked |-> panicked ]

Install(e) ==
    /\ document' = e.document
    /\ fs' = e.fs
    /\ should_quit' = e.should_quit
    /\ cursor_position' = e.cursor_position
    /\ offset' = e.offset
    /\ message' = e.message
    /\ mode' = e.mode
    /\ command_buffer' = e.command_buffer
    /\ normal_command_buffer' = e.normal_command_buffer
    /\ mouse_event_buffer' = e.mouse_event_buffer
    /\ search_matches' = e.search_matches
    /\ current_search_match_index' = e.current_search_match_index
    /\ alternate_screen' = e.alternate_screen
    /\ last_saved_hash' = e.last_saved_hash
    /\ unsaved_edits' = e.unsaved_edits
    /\ row_prefix_length' = e.row_prefix_length
    /\ config' = e.config
    /\ panicked' = e.panicked

\* a panic: the process ends where it stands
Dead(e) == [e EXCEPT !.panicked = TRUE]

\* the result of a Document mutator put back into the editor
WithRows(e, r) ==
    [e EXCEPT !.document.rows = r.rows, !.panicked = e.panicked \/ r.panic]

\* Document::hashed is not in this source tree: a hash of the rows' text,
\* taken here to be free of collisions
hashed(doc) == [hash_of |-> doc.rows]

\* is_dirty read off the unsaved-edit counter instead of the content hash
is_dirty_CountsEdits(e) == e.unsaved_edits > 0

\* Editor::is_dirty
is_dirty(e) == e.last_saved_hash # hashed(e.document)

\* Position::top_left, ViewportOffset::default
top_left == [x |-> 0, y |-> 0]
NoOffset == [rows |-> 0, columns |-> 0]

\* Editor::new(filename, terminal): filename is NoName when none is given
EditorNew(files, filename, read_ok) ==
    LET doc == IF filename = NoName THEN DocumentDefault
               ELSE LET r == DocumentOpen(files, filename, read_ok)
                    IN  IF r.ok THEN r.doc ELSE DocumentDefault
    IN  [ document |-> doc, fs |-> files, should_quit |-> FALSE,
          cursor_position |-> top_left, offset |-> NoOffset,
          message |-> NoMessage, mode |-> "Normal",
          command_buffer |-> << >>, normal_command_buffer |-> << >>,
          mouse_event_buffer |-> << >>, search_matches |-> << >>,
          current_search_match_index |-> 0, alternate_screen |-> FALSE,
          last_saved_hash |-> hashed(doc), unsaved_edits |-> 0,
          row_prefix_length |-> 0,
          config |-> [display_line_numbers |-> FALSE, display_stats |-> FALSE],
          panicked |-> FALSE ]

display_message(e, m) == [e EXCEPT !.message = m]
reset_message(e) == [e EXCEPT !.message = NoMessage]

enter_insert_mode(e) == [e EXCEPT !.mode = "Insert"]
enter_normal_mode(e) == [e EXCEPT !.mode = "Normal"]

start_receiving_command(e) ==
    [e EXCEPT !.command_buffer = Append(@, COMMAND_PREFIX)]
start_receiving_search_pattern(e) ==
    [e EXCEPT !.command_buffer = Append(@, SEARCH_PREFIX)]

\* stop_receiving_command that leaves the buffer as it is
stop_receiving_command_KeepsTheBuffer(e) == e

stop_receiving_command(e) == [e EXCEPT !.command_buffer = << >>]
is_receiving_command(e) == e.command_buffer # << >>

\* Editor::get_row(index) is Some
has_row(e, index) == index < Len(e.document.rows)
get_row(e, index) == e.document.rows[index + 1]

current_row_index(e) == e.cursor_position.y + e.offset.rows
current_x_position(e) == e.cursor_position.x + e.offset.columns
current_line_number(e) == current_row_index(e) + 1

\* Editor::current_row unwraps get_row: it panics when the cursor is on no row
has_current_row(e) == has_row(e, current_row_index(e))
current_row(e) == get_row(e, current_row_index(e))

-----------------------------------------------------------------------------
(* Cursor and viewport (editor.rs:808-927) *)

\* Editor::move_cursor_to_position_x
move_cursor_to_position_x(e, x) ==
    LET term_width == TermWidth
    IN  IF x > term_width
        THEN [e EXCEPT !.cursor_position.x = SatSub(term_width, 1),
                       !.offset.columns =
                           SatSub(SatSub(x, term_width), e.offset.columns) + 1]
        ELSE [e EXCEPT !.cursor_position.x = x, !.offset.columns = 0]

\* Editor::move_cursor_to_position_y
move_cursor_to_position_y(e, y0) ==
    LET max_line_number == last_line_number(e.document.rows)
        term_height == TermHeight
        middle == middle_of_screen_line_number
        y == Min(Max(0, y0), max_line_number)
    IN  IF y < middle
        THEN [e EXCEPT !.offset.rows = 0, !.cursor_position.y = y]
        ELSE IF y > SatSub(max_line_number, middle)
        THEN LET rows == SatSub(max_line_number, term_height)
             IN  [e EXCEPT !.offset.rows = rows,
                           !.cursor_position.y = SatSub(y, rows)]
        ELSE IF e.offset.rows <= y /\ y <= e.offset.rows + term_height
        THEN [e EXCEPT !.cursor_position.y = SatSub(y, e.offset.rows)]
        ELSE [e EXCEPT !.offset.rows = SatSub(y, middle),
                       !.cursor_position.y = middle]

\* Editor::goto_x_y
goto_x_y(e, x, y) ==
    IF e.panicked THEN e
    ELSE move_cursor_to_position_y(move_cursor_to_position_x(e, x), y)

\* Editor::goto_line
goto_line(e, line_number, x_position) ==
    goto_x_y(e, x_position, SatSub(line_number, 1))

\* one iteration of the loop of Editor::move_cursor over its local copies
\* s = [x, y, offset_x, offset_y, panic]; self is not written before the end
MoveCursorStep(e, direction, s) ==
    LET term_height == SatSub(TermHeight, 1)
        term_width == SatSub(TermWidth, 1)
    IN  CASE direction = "Up" ->
               IF s.y = 0 THEN [s EXCEPT !.offset_y = SatSub(@, 1)]
               ELSE [s EXCEPT !.y = SatSub(@, 1)]
          [] direction = "Down" ->
               IF s.y + s.offset_y
                     < SatSub(last_line_number(e.document.rows), 1)
               THEN IF s.y < term_height THEN [s EXCEPT !.y = @ + 1]
                    ELSE [s EXCEPT !.offset_y = @ + 1]
               ELSE s
          [] direction = "Left" ->
               IF s.x >= term_width THEN [s EXCEPT !.offset_x = SatSub(@, 1)]
               ELSE [s EXCEPT !.x = SatSub(@, 1)]
          [] direction = "Right" ->
               IF ~ has_current_row(e) THEN [s EXCEPT !.panic = TRUE]
               ELSE IF s.x + s.offset_x <= SatSub(RowLen(current_row(e)), 1)
                    THEN IF s.x < term_width THEN [s EXCEPT !.x = @ + 1]
                         ELSE [s EXCEPT !.offset_x = @ + 1]
                    ELSE s

\* iterations after which the loop of Editor::move_cursor changes nothing
\* more: every iteration that changes something moves the cursor one place
\* towards the first row or column, the last row, or the end of the row
IterationsToRest(e) ==
    e.cursor_position.x + e.offset.columns + e.cursor_position.y + e.offset.rows
       + Len(e.document.rows)
       + (IF has_current_row(e) THEN RowLen(current_row(e)) ELSE 0) + 1

\* the loop of Editor::move_cursor
RECURSIVE MoveCursorLoop(_, _, _, _)
MoveCursorLoop(e, direction, times, s) ==
    IF times = 0 \/ s.panic THEN s
    ELSE MoveCursorLoop(e, direction, times - 1, MoveCursorStep(e, direction, s))

\* variant of Editor::move_cursor without the Normal-mode clamp of the column
move_cursor_KeepsTheColumn(e, direction, times) ==
    IF e.panicked THEN e
    ELSE
    LET s == MoveCursorLoop(e, direction, Min(times, IterationsToRest(e)),
                 [x |-> e.cursor_position.x, y |-> e.cursor_position.y,
                  offset_x |-> e.offset.columns, offset_y |-> e.offset.rows,
                  panic |-> FALSE])
    IN  IF s.panic THEN Dead(e)
        ELSE [e EXCEPT !.cursor_position = [x |-> s.x, y |-> s.y],
                       !.offset = [rows |-> s.offset_y, columns |-> s.offset_x]]

\* Editor::move_cursor
move_cursor(e, direction, times) ==
    IF e.panicked THEN e
    ELSE
    LET s == MoveCursorLoop(e, direction, Min(times, IterationsToRest(e)),
                 [x |-> e.cursor_position.x, y |-> e.cursor_position.y,
                  offset_x |-> e.offset.columns, offset_y |-> e.offset.rows,
                  panic |-> FALSE])
        moved == [e EXCEPT !.cursor_position.y = s.y,
                           !.offset = [rows |-> s.offset_y,
                                       columns |-> s.offset_x]]
    IN  IF s.panic THEN Dead(e)
        ELSE IF e.mode = "Normal"
             THEN IF ~ has_current_row(moved) THEN Dead(moved)
                  ELSE [moved EXCEPT !.cursor_position.x =
                           Min(SatSub(RowLen(current_row(moved)), 1), s.x)]
             ELSE [moved EXCEPT !.cursor_position.x = s.x]

\* Editor::goto_start_or_end_of_document
goto_start_or_end_of_document(e, boundary) ==
    IF boundary = "Start" THEN goto_line(e, 1, 0)
    ELSE goto_line(e, last_line_number(e.document.rows), 0)

\* Editor::goto_start_or_end_of_line
goto_start_or_end_of_line(e, boundary) ==
    IF e.panicked THEN e
    ELSE IF boundary = "Start" THEN move_cursor_to_position_x(e, 0)
    ELSE IF ~ has_current_row(e) THEN Dead(e)
    ELSE move_cursor_to_position_x(e, SatSub(RowLen(current_row(e)), 1))

\* Editor::goto_first_line_of_terminal
goto_first_line_of_terminal(e) == goto_line(e, e.offset.rows + 1, 0)

\* Editor::goto_middle_of_terminal
goto_middle_of_terminal(e) ==
    goto_line(e, middle_of_screen_line_number + e.offset.rows + 1, 0)

\* Editor::goto_last_line_of_terminal
goto_last_line_of_terminal(e) ==
    goto_line(e, TermHeight + e.offset.rows + 1, 0)

\* Editor::goto_percentage_in_document
goto_percentage_in_document(e, percent0) ==
    LET percent == Min(percent0, 100)
        line_number == (last_line_number(e.document.rows) * percent) \div 100
    IN  goto_line(e, line_number, 0)

-----------------------------------------------------------------------------
(* Search (editor.rs:401-428, 764-806) *)

\* Row::contains / Row::find: the start of the first occurrence of the
\* pattern, or -1 (None)
RowFind(r, pattern) ==
    LET hits == { i \in 0..(Len(r) - Len(pattern)) :
                    SubSeq(r, i + 1, i + Len(pattern)) = pattern }
    IN  IF hits = {} THEN -1 ELSE CHOOSE i \in hits : \A j \in hits : i <= j

\* Editor::reset_search
reset_search(e) ==
    [e EXCEPT !.search_matches = << >>, !.current_search_match_index = 0]

\* the matches the loop of process_search_command collects from row_index on
RECURSIVE CollectMatches(_, _, _)
CollectMatches(rows, pattern, row_index) ==
    IF row_index >= Len(rows) THEN << >>
    ELSE LET at == RowFind(rows[row_index + 1], pattern)
             rest == CollectMatches(rows, pattern, row_index + 1)
         IN  IF at = -1 THEN rest
             ELSE << << [x |-> at, y |-> row_index + 1],
                        [x |-> at + 1 + ByteLenOf(pattern),
                         y |-> row_index + 1] >> >> \o rest

\* Editor::goto_next_search_match
goto_next_search_match(e) ==
    IF e.panicked \/ e.search_matches = << >> THEN e
    ELSE LET n == Len(e.search_matches)
             index == IF e.current_search_match_index = SatSub(n, 1) THEN 0
                      ELSE e.current_search_match_index + 1
             e1 == [display_message(e, MsgMatch(index + 1, n))
                       EXCEPT !.current_search_match_index = index]
         IN  IF index < n
             THEN goto_line(e1, e.search_matches[index + 1][1].y,
                                e.search_matches[index + 1][1].x)
             ELSE e1

\* variant of Editor::goto_previous_search_match that stops at the first match
goto_previous_search_match_StopsAtFirst(e) ==
    IF e.panicked \/ e.search_matches = << >> THEN e
    ELSE LET index == SatSub(e.current_search_match_index, 1)
             e1 == [display_message(e, MsgMatch(index + 1, Len(e.search_matches)))
                       EXCEPT !.current_search_match_index = index]
         IN  goto_line(e1, e.search_matches[index + 1][1].y,
                           e.search_matches[index + 1][1].x)

\* Editor::goto_previous_search_match
goto_previous_search_match(e) ==
    IF e.panicked \/ e.search_matches = << >> THEN e
    ELSE LET n == Len(e.search_matches)
             index == IF e.current_search_match_index = 0 THEN SatSub(n, 1)
                      ELSE SatSub(e.current_search_match_index, 1)
             e1 == [display_message(e, MsgMatch(index + 1, n))
                       EXCEPT !.current_search_match_index = index]
         IN  IF index < n
             THEN goto_line(e1, e.search_matches[index + 1][1].y,
                                e.search_matches[index + 1][1].x)
             ELSE e1

\* Editor::process_search_command
process_search_command(e, search_pattern) ==
    LET found == CollectMatches(e.document.rows, search_pattern, 0)
        e1 == [reset_search(e) EXCEPT !.search_matches = found]
        e2 == display_message(e1, MsgMatches(Len(found)))
        e3 == [e2 EXCEPT !.current_search_match_index = SatSub(Len(found), 1)]
    IN  goto_next_search_match(e3)

-----------------------------------------------------------------------------
(* Saving and quitting (editor.rs:346-399) *)

\* Document::save: Ok without writing when no name is bound; io_ok: the
\* file can be created and written
DocumentSave(files, doc, io_ok) ==
    IF doc.filename # NoName
    THEN IF io_ok
         THEN [ok |-> TRUE,
               fs |-> RemoveFile(WriteFile(files, doc.filename,
                                           WriteRows(doc.rows)),
                                 swap_filename(doc.filename))]
         ELSE [ok |-> FALSE, fs |-> files]
    ELSE [ok |-> TRUE, fs |-> files]

\* a save_as that writes to the name the document already has
DocumentSaveAs_WritesTheOldName(files, doc, new_name, io_ok) ==
    IF io_ok
    THEN [ok |-> TRUE, fs |-> WriteFile(files, doc.filename, WriteRows(doc.rows))]
    ELSE [ok |-> FALSE, fs |-> files]

\* Document::save_as(name) is not in this source tree: it writes the rows to
\* the given path (specification, section 4.2)
DocumentSaveAs(files, doc, new_name, io_ok) ==
    IF io_ok
    THEN [ok |-> TRUE, fs |-> WriteFile(files, new_name, WriteRows(doc.rows))]
    ELSE [ok |-> FALSE, fs |-> files]

\* Document::save_to_swap_file; swap_filename panics on the empty name
DocumentSaveToSwapFile(files, doc, io_ok) ==
    IF swap_filename_panics(doc.filename)
    THEN [ok |-> FALSE, panic |-> TRUE, fs |-> files]
    ELSE IF io_ok
         THEN [ok |-> TRUE, panic |-> FALSE,
               fs |-> WriteFile(files, swap_filename(doc.filename),
                                WriteRows(doc.rows))]
         ELSE [ok |-> FALSE, panic |-> FALSE, fs |-> files]

\* Editor::save(new_name)
save(e, new_name, io_ok) ==
    IF e.panicked THEN e
    ELSE
    LET trimmed == [e EXCEPT !.document.rows = trim_trailing_spaces(@)]
    IN  IF ~ has_current_row(trimmed) THEN Dead(trimmed)
        ELSE
        LET e1 == IF trimmed.cursor_position.x >= RowLen(current_row(trimmed))
                  THEN [trimmed EXCEPT !.cursor_position.x =
                            SatSub(RowLen(current_row(trimmed)), 1)]
                  ELSE trimmed
            initial_filename == e1.document.filename
            finish(e2) == [e2 EXCEPT !.unsaved_edits = 0,
                                     !.last_saved_hash = hashed(e2.document)]
        IN  IF new_name = << >>
            THEN IF e1.document.filename = NoName
                 THEN display_message(e1, MsgNoFileName)
                 ELSE LET w == DocumentSave(e1.fs, e1.document, io_ok)
                      IN  IF w.ok
                          THEN finish([display_message(e1, MsgSaved) EXCEPT
                                   !.fs = w.fs,
                                   !.last_saved_hash = hashed(e1.document)])
                          ELSE display_message(e1, MsgWriteError)
            ELSE LET w == DocumentSaveAs(e1.fs, e1.document, new_name, io_ok)
                 IN  IF w.ok
                     THEN finish([display_message(e1,
                                     IF initial_filename = NoName
                                     THEN MsgBufferSaved(new_name)
                                     ELSE MsgRenamed(initial_filename, new_name))
                                  EXCEPT !.fs = w.fs,
                                         !.document.filename = new_name])
                     ELSE finish(display_message(e1, MsgWriteError))

\* Editor::save_to_swap_file
save_to_swap_file(e, io_ok) ==
    IF e.panicked THEN e
    ELSE LET w == DocumentSaveToSwapFile(e.fs, e.document, io_ok)
         IN  IF w.panic THEN Dead(e)
             ELSE IF w.ok THEN [e EXCEPT !.fs = w.fs, !.unsaved_edits = 0]
             ELSE e

\* quit without the test on is_dirty
quit_WhateverTheDirtyState(e, force) ==
    IF e.panicked THEN e ELSE [e EXCEPT !.should_quit = TRUE]

\* Editor::quit(force)
quit(e, force) ==
    IF e.panicked THEN e
    ELSE IF is_dirty(e) /\ ~ force THEN display_message(e, MsgUnsaved)
    ELSE [e EXCEPT !.should_quit = TRUE]

-----------------------------------------------------------------------------
(* The command line (editor.rs:266-344) *)

\* str::split(' '): the pieces between the spaces, empty ones included
RECURSIVE SplitFrom(_, _)
SplitFrom(s, cur) ==
    IF s = << >> THEN << cur >>
    ELSE IF Head(s) = " " THEN << cur >> \o SplitFrom(Tail(s), << >>)
         ELSE SplitFrom(Tail(s), Append(cur, Head(s)))

SplitOnSpace(s) == SplitFrom(s, << >>)

\* [&str]::join(" ")
RECURSIVE JoinWithSpace(_)
JoinWithSpace(tokens) ==
    IF tokens = << >> THEN << >>
    ELSE IF Len(tokens) = 1 THEN Head(tokens)
         ELSE Head(tokens) \o << " " >> \o JoinWithSpace(Tail(tokens))

\* str::trim
RECURSIVE TrimStart(_)
TrimStart(s) ==
    IF s # << >> /\ IsWhitespace(Head(s)) THEN TrimStart(Tail(s)) ELSE s

Trim(s) == TrimStart(RowTrimEnd(s))

\* Editor::process_received_command; io_ok: the file the command reads or
\* writes can be read or written
process_received_command(e, io_ok) ==
    IF e.panicked THEN e
    ELSE
    LET prefix == Head(e.command_buffer)
        command == Tail(e.command_buffer)
    IN  IF prefix = SEARCH_PREFIX THEN process_search_command(e, command)
        ELSE IF prefix # COMMAND_PREFIX THEN e
        ELSE IF command = << >> THEN e
        ELSE IF \A i \in 1..Len(command) : is_numeric(command[i])
        THEN LET line_index == ParseUsize(command)
             IN  IF line_index.ok THEN goto_line(e, line_index.value, 0)
                 ELSE Dead(e)
        ELSE IF Len(SplitOnSpace(command)) > 1
        THEN LET cmd_tokens == SplitOnSpace(command)
                 first == cmd_tokens[1]
             IN  IF first = OPEN \/ first = OPEN_SHORT
                 THEN LET r == DocumentOpen(e.fs, cmd_tokens[2], io_ok)
                      IN  IF r.ok
                          THEN reset_message(
                                 [e EXCEPT !.document = r.doc,
                                           !.last_saved_hash = hashed(r.doc)])
                          ELSE display_message(e, MsgNotFound(cmd_tokens[2]))
                 ELSE IF first = NEW_CMD
                 THEN enter_insert_mode(
                        [e EXCEPT !.document = DocumentNewEmpty(cmd_tokens[2])])
                 ELSE IF first = SAVE
                 THEN save(e, Trim(JoinWithSpace(Tail(cmd_tokens))), io_ok)
                 ELSE display_message(e, MsgUnknown(first))
        ELSE IF command = FORCE_QUIT THEN quit(e, TRUE)
        ELSE IF command = QUIT THEN quit(e, FALSE)
        ELSE IF command = LINE_NUMBERS
        THEN LET on == ~ e.config.display_line_numbers
             IN  [e EXCEPT !.config.display_line_numbers = on,
                           !.row_prefix_length = IF on THEN START_X ELSE 0]
        ELSE IF command = STATS
        THEN [e EXCEPT !.config.display_stats = ~ @]
        ELSE IF command = HELP THEN [e EXCEPT !.alternate_screen = TRUE]
        ELSE IF command = SAVE THEN save(e, << >>, io_ok)
        ELSE IF command = SAVE_AND_QUIT
        THEN quit(save(e, << >>, io_ok), FALSE)
        ELSE IF command = DEBUG THEN e
        ELSE display_message(e, MsgUnknown(command))

-----------------------------------------------------------------------------
(* Normal mode (editor.rs:430-509, 598-637) *)

\* Editor::revert_to_main_screen
revert_to_main_screen(e) == [reset_message(e) EXCEPT !.alternate_screen = FALSE]

\* variant of Editor::pop_normal_command_repetitions that drops the count
pop_normal_command_repetitions_OnceOnly(e) ==
    [times |-> 1, e |-> [e EXCEPT !.normal_command_buffer = << >>]]

\* Editor::pop_normal_command_repetitions: the count, and the editor with the
\* buffer emptied; the unwrap of parse panics on a count above usize::MAX
pop_normal_command_repetitions(e) ==
    LET parsed == ParseUsize(e.normal_command_buffer)
    IN  IF Len(e.normal_command_buffer) = 0
        THEN [times |-> 1, e |-> [e EXCEPT !.normal_command_buffer = << >>]]
        ELSE IF parsed.ok
             THEN [times |-> parsed.value,
                   e |-> [e EXCEPT !.normal_command_buffer = << >>]]
             ELSE [times |-> 0, e |-> Dead(e)]

\* Editor::delete_current_line
delete_current_line(e) ==
    LET e1 == WithRows(e, DocDeleteRow(e.document.rows, current_row_index(e)))
    IN  IF e1.panicked THEN e1
        ELSE IF e1.cursor_position.y >= SatSub(num_rows(e1.document.rows), 1)
             THEN goto_line(e1, num_rows(e1.document.rows), e1.cursor_position.x)
             ELSE [e1 EXCEPT !.cursor_position.x = 0]

\* Editor::delete_current_grapheme
delete_current_grapheme(e) ==
    WithRows(e, DocDelete(e.document.rows, current_x_position(e),
                          current_x_position(e), current_row_index(e)))

\* Editor::insert_newline_after_current_line
insert_newline_after_current_line(e) ==
    IF ~ has_current_row(e) THEN Dead(e)
    ELSE LET next_row_index == current_row_index(e) + 1
             e1 == WithRows(e, DocInsertNewline(e.document.rows,
                                   RowLen(current_row(e)), current_row_index(e)))
         IN  IF e1.panicked THEN e1
             ELSE enter_insert_mode(goto_x_y(e1, 0, next_row_index))

\* Editor::insert_newline_before_current_line
insert_newline_before_current_line(e) ==
    LET e1 == WithRows(e, DocInsertNewline(e.document.rows, 0,
                                           current_row_index(e)))
    IN  IF e1.panicked THEN e1
        ELSE enter_insert_mode(goto_x_y(e1, 0, current_row_index(e1)))

\* Editor::append_to_line
append_to_line(e) ==
    move_cursor(goto_start_or_end_of_line(enter_insert_mode(e), "End"),
                "Right", 1)

\* Row::nth_grapheme is not in this source tree: the grapheme at an index,
\* the empty text past the end (specification, section 3, Row)
nth_grapheme(row, index) == IF index < RowLen(row) THEN row[index + 1] ELSE ""

\* Editor::current_grapheme
current_grapheme(e) == nth_grapheme(current_row(e), current_x_position(e))

OpeningSymbols == { "\"", "'", "{", "<", "(", "[" }
ClosingSymbols == { "}", ">", ")", "]" }

\* the symbol that closes an opening symbol, and the one that opens a closing
\* symbol
ClosingOf(symbol) ==
    CASE symbol = "{" -> "}"
      [] symbol = "<" -> ">"
      [] symbol = "(" -> ")"
      [] symbol = "[" -> "]"
      [] OTHER -> symbol

OpeningOf(symbol) ==
    CASE symbol = "}" -> "{"
      [] symbol = ">" -> "<"
      [] symbol = ")" -> "("
      [] symbol = "]" -> "["
      [] OTHER -> symbol

NoMatch == [found |-> FALSE, x |-> 0, y |-> 0]

\* Navigator is not in this source tree (specification, section 4.3): the scan
\* forward from column x of row y with the nesting depth of the symbol, up on
\* the opener and down on the closer, to the closer where it returns to zero
RECURSIVE ScanForward(_, _, _, _, _, _)
ScanForward(rows, x, y, depth, opener, closer) ==
    IF y >= Len(rows) THEN NoMatch
    ELSE IF x >= RowLen(rows[y + 1])
    THEN ScanForward(rows, 0, y + 1, depth, opener, closer)
    ELSE LET c == rows[y + 1][x + 1]
         IN  IF c = closer
             THEN IF depth = 1 THEN [found |-> TRUE, x |-> x, y |-> y]
                  ELSE ScanForward(rows, x + 1, y, depth - 1, opener, closer)
             ELSE IF c = opener
             THEN ScanForward(rows, x + 1, y, depth + 1, opener, closer)
             ELSE ScanForward(rows, x + 1, y, depth, opener, closer)

\* the symmetric scan backward; x counts the columns of row y still to scan
RECURSIVE ScanBackward(_, _, _, _, _, _)
ScanBackward(rows, x, y, depth, opener, closer) ==
    IF x = 0
    THEN IF y = 0 THEN NoMatch
         ELSE ScanBackward(rows, RowLen(rows[y]), y - 1, depth, opener, closer)
    ELSE LET c == rows[y + 1][x]
         IN  IF c = opener
             THEN IF depth = 1 THEN [found |-> TRUE, x |-> x - 1, y |-> y]
                  ELSE ScanBackward(rows, x - 1, y, depth - 1, opener, closer)
             ELSE IF c = closer
             THEN ScanBackward(rows, x - 1, y, depth + 1, opener, closer)
             ELSE ScanBackward(rows, x - 1, y, depth, opener, closer)

\* Navigator::find_matching_closing_symbol, from the symbol under the cursor
find_matching_closing_symbol(doc, position, off) ==
    LET x == position.x + off.columns
        y == position.y + off.rows
        symbol == nth_grapheme(doc.rows[y + 1], x)
    IN  ScanForward(doc.rows, x + 1, y, 1, symbol, ClosingOf(symbol))

\* Navigator::find_matching_opening_symbol
find_matching_opening_symbol(doc, position, off) ==
    LET x == position.x + off.columns
        y == position.y + off.rows
        symbol == nth_grapheme(doc.rows[y + 1], x)
    IN  ScanBackward(doc.rows, x, y, 1, OpeningOf(symbol), symbol)

\* Editor::goto_matching_closing_symbol
goto_matching_closing_symbol(e) ==
    IF e.panicked THEN e
    ELSE IF ~ has_current_row(e) THEN Dead(e)
    ELSE LET symbol == current_grapheme(e)
         IN  IF symbol \in OpeningSymbols
             THEN LET position == find_matching_closing_symbol(
                                      e.document, e.cursor_position, e.offset)
                  IN  IF position.found
                      THEN goto_x_y(e, position.x, position.y)
                      ELSE e
             ELSE IF symbol \in ClosingSymbols
             THEN LET position == find_matching_opening_symbol(
                                      e.document, e.cursor_position, e.offset)
                  IN  IF position.found
                      THEN goto_x_y(e, position.x, position.y)
                      ELSE e
             ELSE e

\* Editor::process_normal_command_n_times, for the motions h j k l and %
process_normal_command_n_times(e, c, n) ==
    CASE c = "h" -> move_cursor(e, "Left", n)
      [] c = "j" -> move_cursor(e, "Down", n)
      [] c = "k" -> move_cursor(e, "Up", n)
      [] c = "l" -> move_cursor(e, "Right", n)
      [] c = "%" -> goto_percentage_in_document(e, n)
      [] OTHER -> e

\* the keys of Normal mode whose handlers call Navigator or
\* Document::join_row_with_previous_one, which are not in this source tree
UnmodelledNormalChars == { "b", "w", "}", "{", "^", "J" }

\* Editor::process_normal_command
process_normal_command(e, key) ==
    IF e.panicked THEN e
    ELSE
    LET e0 == IF key = KeyEsc THEN reset_search(reset_message(e)) ELSE e
        c == key.c
    IN  IF key.kind # "Char" THEN e0
        ELSE CASE c = "0" ->
                    IF e0.normal_command_buffer = << >>
                    THEN goto_start_or_end_of_line(e0, "Start")
                    ELSE [e0 EXCEPT !.normal_command_buffer = Append(@, c)]
               [] c \in AsciiDigits \ {"0"} ->
                    [e0 EXCEPT !.normal_command_buffer = Append(@, c)]
               [] c = "i" -> enter_insert_mode(e0)
               [] c = ":" -> start_receiving_command(e0)
               [] c = "/" -> start_receiving_search_pattern(e0)
               [] c = "G" -> goto_start_or_end_of_document(e0, "End")
               [] c = "g" -> goto_start_or_end_of_document(e0, "Start")
               [] c = "$" -> goto_start_or_end_of_line(e0, "End")
               [] c = "H" -> goto_first_line_of_terminal(e0)
               [] c = "M" -> goto_middle_of_terminal(e0)
               [] c = "L" -> goto_last_line_of_terminal(e0)
               [] c = "m" -> goto_matching_closing_symbol(e0)
               [] c = "n" -> goto_next_search_match(e0)
               [] c = "N" -> goto_previous_search_match(e0)
               [] c = "q" -> revert_to_main_screen(e0)
               [] c = "d" -> delete_current_line(e0)
               [] c = "x" -> delete_current_grapheme(e0)
               [] c = "o" -> insert_newline_after_current_line(e0)
               [] c = "O" -> insert_newline_before_current_line(e0)
               [] c = "A" -> append_to_line(e0)
               [] OTHER ->
                    LET popped == pop_normal_command_repetitions(e0)
                    IN  process_normal_command_n_times(popped.e, c, popped.times)

-----------------------------------------------------------------------------
(* Insert mode (editor.rs:511-567) *)

\* u8::saturating_add(1)
SatIncU8(n) == IF n >= U8Max THEN U8Max ELSE n + 1

\* the four Document::insert calls of the Tab key, all at the same place
RECURSIVE InsertSpaces(_, _, _, _)
InsertSpaces(r, x, y, n) ==
    IF n = 0 \/ r.panic THEN r
    ELSE InsertSpaces(DocInsert(r.rows, " ", x, y), x, y, n - 1)

\* Editor::process_insert_command; io_ok: the swap file can be written
process_insert_command(e, pressed_key, io_ok) ==
    IF e.panicked THEN e
    ELSE IF pressed_key = KeyEsc THEN enter_normal_mode(e)
    ELSE
    LET edited ==
          IF pressed_key = KeyBackspace
          THEN IF e.cursor_position.x = 0
               THEN IF e.cursor_position.y > 0
                    THEN IF ~ has_row(e, SatSub(current_row_index(e), 1))
                         THEN Dead(e)
                         ELSE
                         LET previous_line_len ==
                               RowLen(get_row(e, SatSub(current_row_index(e), 1)))
                             e1 == WithRows(e, DocDelete(e.document.rows, 0, 0,
                                                   current_row_index(e)))
                         IN  goto_x_y(e1, previous_line_len,
                                      SatSub(current_row_index(e1), 1))
                    ELSE e
               ELSE move_cursor(
                      WithRows(e, DocDelete(e.document.rows,
                                      SatSub(current_x_position(e), 1),
                                      current_x_position(e),
                                      current_row_index(e))),
                      "Left", 1)
          ELSE IF pressed_key = KeyEnter
          THEN LET e1 == WithRows(e, DocInsertNewline(e.document.rows,
                                        current_x_position(e),
                                        current_row_index(e)))
               IN  goto_x_y(e1, 0, current_row_index(e1) + 1)
          ELSE IF pressed_key = KeyTab
          THEN move_cursor(
                 WithRows(e, InsertSpaces(Done(e.document.rows),
                                 current_x_position(e), current_row_index(e),
                                 SPACES_PER_TAB)),
                 "Right", SPACES_PER_TAB)
          ELSE IF pressed_key.kind = "Char"
          THEN move_cursor(
                 WithRows(e, DocInsert(e.document.rows, pressed_key.c,
                                 current_x_position(e), current_row_index(e))),
                 "Right", 1)
          ELSE e
    IN  IF edited.panicked THEN edited
        ELSE LET counted == [edited EXCEPT !.unsaved_edits = SatIncU8(@)]
             IN  IF counted.unsaved_edits >= SWAP_SAVE_EVERY
                 THEN save_to_swap_file(counted, io_ok)
                 ELSE counted

-----------------------------------------------------------------------------
(* Events (editor.rs:145-223, 933-967, 1047-1071) *)

\* String::truncate(len - 1) of the command buffer: len counts bytes, and
\* truncate panics when the new length is inside a character
TruncateLastByte(buffer) ==
    IF buffer = << >> THEN Done(buffer)
    ELSE IF ByteLen(buffer[Len(buffer)]) = 1
         THEN Done(SubSeq(buffer, 1, Len(buffer) - 1))
         ELSE Panic(buffer)

\* Editor::process_keystroke
process_keystroke(e, pressed_key, io_ok) ==
    IF is_receiving_command(e)
    THEN IF pressed_key = KeyEsc THEN stop_receiving_command(e)
         ELSE IF pressed_key = KeyEnter
         THEN LET e1 == process_received_command(e, io_ok)
              IN  IF e1.panicked THEN e1 ELSE stop_receiving_command(e1)
         ELSE IF pressed_key.kind = "Char"
         THEN [e EXCEPT !.command_buffer = Append(@, pressed_key.c)]
         ELSE IF pressed_key = KeyBackspace
         THEN LET t == TruncateLastByte(e.command_buffer)
              IN  IF t.panic THEN Dead(e)
                  ELSE [e EXCEPT !.command_buffer = t.rows]
         ELSE e
    ELSE IF e.mode = "Normal" THEN process_normal_command(e, pressed_key)
         ELSE process_insert_command(e, pressed_key, io_ok)

\* Editor::process_mouse_event; a press carries the position that
\* Console::get_cursor_index_from_mouse_event makes of it
process_mouse_event(e, mouse_event) ==
    IF mouse_event.kind = "Press"
    THEN [e EXCEPT !.mouse_event_buffer = Append(@, mouse_event.pos)]
    ELSE IF mouse_event.kind = "Release"
    THEN IF e.mouse_event_buffer # << >>
         THEN LET pos == e.mouse_event_buffer[Len(e.mouse_event_buffer)]
                  e1 == [e EXCEPT !.mouse_event_buffer =
                                      SubSeq(@, 1, Len(@) - 1)]
              IN  IF pos.y + 1 <= num_rows(e1.document.rows)
                     /\ has_row(e1, pos.y)
                     /\ pos.x <= RowLen(get_row(e1, pos.y))
                  THEN [e1 EXCEPT !.cursor_position = pos]
                  ELSE e1
         ELSE e
    ELSE e

\* Editor::refresh_screen: drawing the help screen sets the message
refresh_screen(e) ==
    IF ~ e.should_quit /\ e.alternate_screen
    THEN display_message(e, MsgHelp) ELSE e

-----------------------------------------------------------------------------
(* The event loop (editor.rs:146-170): one step is one iteration of run,    *)
(* refresh_screen then process_event.  The loop ends on should_quit, and    *)
(* the process on a panic.                                                  *)

RECURSIVE TextSize(_)
TextSize(rows) ==
    IF rows = << >> THEN 0 ELSE 1 + Len(Head(rows)) + TextSize(Tail(rows))

\* all the prefixes of the sequences of a set
Prefixes(Lines) == UNION { { SubSeq(l, 1, n) : n \in 0..Len(l) } : l \in Lines }

\* the bounds of the model on a state the editor reaches
WithinBounds(e, max_edits) ==
    /\ TextSize(e.document.rows) <= MaxText
    /\ e.unsaved_edits <= max_edits
    /\ Len(e.normal_command_buffer) <= MaxDigits
    /\ Len(e.mouse_event_buffer) <= MaxClicks

Running == ~ panicked /\ ~ should_quit

\* history: the event, and the command line an Enter submits with the
\* dirty state it is submitted in
KeyOp(kind, key, io_ok) ==
    [op |-> kind, key |-> key, io_ok |-> io_ok,
     cmd |-> IF key = KeyEnter THEN command_buffer ELSE << >>,
     dirty |-> key = KeyEnter /\ is_dirty(Ed)]

\* the name a save command line gives, none where it gives none
SaveName(line) ==
    LET tokens == SplitOnSpace(Tail(line))
    IN  IF Len(tokens) > 1 THEN Trim(JoinWithSpace(Tail(tokens))) ELSE << >>

\* the command line asks for a save: :w, :wq, :w name
IsSaveLine(line) ==
    /\ line # << >>
    /\ Head(line) = COMMAND_PREFIX
    /\ \/ Tail(line) \in { SAVE, SAVE_AND_QUIT }
       \/ /\ Len(SplitOnSpace(Tail(line))) > 1
          /\ SplitOnSpace(Tail(line))[1] = SAVE

\* the save a command line asks for has a path to write to
HasTarget(line, filename) == SaveName(line) # << >> \/ filename # NoName

\* history: the rows as they were when the document was opened or last
\* written to its file with success
SavedRows(key, io_ok, e) ==
    IF /\ key = KeyEnter
       /\ IsSaveLine(command_buffer)
       /\ HasTarget(command_buffer, document.filename)
       /\ io_ok
    THEN e.document.rows
    ELSE ctor.saved

\* a key while the command line is open; the user types the lines of Lines
OverlayKey(key, io_ok, Lines) ==
    /\ Running
    /\ is_receiving_command(Ed)
    /\ (key # KeyEnter => io_ok)
    /\ LET e == process_keystroke(refresh_screen(Ed), key, io_ok)
       IN  /\ WithinBounds(e, MaxEdits)
           /\ e.command_buffer \in Prefixes(Lines)
           /\ Install(e)
           /\ ctor' = [ctor EXCEPT !.saved = SavedRows(key, io_ok, e)]
    /\ last_op' = KeyOp("overlay", key, io_ok)

\* a key in Normal mode
NormalKey(key) ==
    /\ Running
    /\ ~ is_receiving_command(Ed)
    /\ mode = "Normal"
    /\ key.c \notin UnmodelledNormalChars
    /\ LET e == process_keystroke(refresh_screen(Ed), key, TRUE)
       IN  /\ WithinBounds(e, MaxEdits)
           /\ Install(e)
    /\ last_op' = KeyOp("normal", key, TRUE)
    /\ UNCHANGED ctor

\* a key in Insert mode; max_edits caps the unsaved-edit counter
InsertKey(key, io_ok, max_edits) ==
    /\ Running
    /\ ~ is_receiving_command(Ed)
    /\ mode = "Insert"
    /\ LET e == process_keystroke(refresh_screen(Ed), key, io_ok)
       IN  /\ WithinBounds(e, max_edits)
           /\ Install(e)
    /\ last_op' = KeyOp("insert", key, io_ok)
    /\ UNCHANGED ctor

\* a mouse event
MouseEvent(mouse_event) ==
    /\ Running
    /\ LET e == process_mouse_event(refresh_screen(Ed), mouse_event)
       IN  /\ WithinBounds(e, MaxEdits)
           /\ Install(e)
    /\ last_op' = [op |-> "mouse", key |-> mouse_event, io_ok |-> TRUE,
                   cmd |-> << >>, dirty |-> FALSE]
    /\ UNCHANGED ctor

\* the editor started on a path (NoName: none) with the given files on disk
EditorStarts(Files, Names) ==
    \E files \in Files, name \in Names, read_ok \in BOOLEAN :
          LET e == EditorNew(files, name, read_ok)
          IN  /\ document = e.document
              /\ fs = e.fs
              /\ should_quit = e.should_quit
              /\ cursor_position = e.cursor_position
              /\ offset = e.offset
              /\ message = e.message
              /\ mode = e.mode
              /\ command_buffer = e.command_buffer
              /\ normal_command_buffer = e.normal_command_buffer
              /\ mouse_event_buffer = e.mouse_event_buffer
              /\ search_matches = e.search_matches
              /\ current_search_match_index = e.current_search_match_index
              /\ alternate_screen = e.alternate_screen
              /\ last_saved_hash = e.last_saved_hash
              /\ unsaved_edits = e.unsaved_edits
              /\ row_prefix_length = e.row_prefix_length
              /\ config = e.config
              /\ panicked = e.panicked

EditorInit(Files, Names) ==
    /\ EditorStarts(Files, Names)
    /\ last_op = [op |-> "new", key |-> KeyOther, io_ok |-> TRUE,
                  cmd |-> << >>, dirty |-> FALSE]
    /\ ctor = [by |-> "editor", n |-> Len(document.rows),
               saved |-> document.rows]

-----------------------------------------------------------------------------
(* Spec: saving and quitting.  The user edits a short text in Insert mode   *)
(* and submits save and quit commands; writes to disk may fail.             *)

F == << "f" >>
G == << "g" >>

Colon(command) == << ":" >> \o command

SaveQuitLines ==
    { Colon(SAVE), Colon(QUIT), Colon(FORCE_QUIT), Colon(SAVE_AND_QUIT) }

LineKeys(Lines) ==
    UNION { { KeyChar(l[i]) : i \in 1..Len(l) } : l \in Lines } \cup
    { KeyEsc, KeyEnter, KeyBackspace, KeyOther }

TextKeys == { KeyChar("a"), KeyBackspace, KeyEsc }

SaveQuitFiles == { NoFiles, WriteFile(NoFiles, F, << "a", "\n" >>) }

Init == EditorInit(SaveQuitFiles, { NoName, F })

Next ==
    \/ \E key \in LineKeys(SaveQuitLines), io_ok \in BOOLEAN :
          OverlayKey(key, io_ok, SaveQuitLines)
    \/ \E key \in { KeyChar("i"), KeyChar(":"), KeyEsc } : NormalKey(key)
    \/ \E key \in TextKeys : InsertKey(key, TRUE, MaxEdits)

Spec == Init /\ [][Next]_vars

Submitted(line) ==
    /\ is_receiving_command(Ed)
    /\ command_buffer = line
    /\ last_op'.op = "overlay"
    /\ last_op'.key = KeyEnter

\* C7 - as stated: should_quit becomes true only through :q!, or
\* through :q or :wq submitted while is_dirty is false
C7_QuitsOnlyForcedOrSubmittedClean ==
    [][ (should_quit' /\ ~ should_quit) =>
           \/ Submitted(Colon(FORCE_QUIT))
           \/ Submitted(Colon(QUIT)) /\ ~ is_dirty(Ed)
           \/ Submitted(Colon(SAVE_AND_QUIT)) /\ ~ is_dirty(Ed) ]_vars

\* C7 - amended: should_quit becomes true only through :q!, through :q
\* submitted while is_dirty is false, or through :wq when is_dirty is false
\* once its save has run (the document was clean or the save succeeded);
\* :q submitted while the document is dirty leaves should_quit false and
\* sets the error message
C7_QuitsOnlyForcedOrCleanAfterSave ==
    [][ /\ (should_quit' /\ ~ should_quit) =>
              \/ Submitted(Colon(FORCE_QUIT))
              \/ Submitted(Colon(QUIT)) /\ ~ is_dirty(Ed)
              \/ Submitted(Colon(SAVE_AND_QUIT)) /\ ~ is_dirty(Ed')
        /\ (Submitted(Colon(QUIT)) /\ is_dirty(Ed)) =>
              /\ ~ should_quit'
              /\ message' = MsgUnsaved
        /\ (Submitted(Colon(SAVE_AND_QUIT)) /\ is_dirty(Ed')) =>
              /\ ~ should_quit'
              /\ message' = MsgUnsaved ]_vars

\* C7 - :wq was submitted on a dirty document, its save succeeded and the
\* editor quits
C7_DirtyDocumentSavedAndQuit ==
    /\ should_quit
    /\ last_op.cmd = Colon(SAVE_AND_QUIT)
    /\ last_op.dirty
    /\ last_op.io_ok

-----------------------------------------------------------------------------
(* SpecSaveAs: commands that go wrong.  The document may have no file name; *)
(* the user saves it under a name, with writes that may fail, and submits   *)
(* a command the editor does not know.                                      *)

Z == << "z" >>

SaveAsLines ==
    { Colon(SAVE), Colon(SAVE \o << " " >> \o G), Colon(QUIT), Colon(Z) }

InitSaveAs == EditorInit({ NoFiles }, { NoName, F })

NextSaveAs ==
    \/ \E key \in LineKeys(SaveAsLines), io_ok \in BOOLEAN :
          OverlayKey(key, io_ok, SaveAsLines)
    \/ \E key \in { KeyChar("i"), KeyChar(":"), KeyEsc } : NormalKey(key)
    \/ \E key \in { KeyChar("a"), KeyEsc } : InsertKey(key, TRUE, MaxEdits)

SpecSaveAs == InitSaveAs /\ [][NextSaveAs]_vars

\* the step submits a save command whose write fails
FailedSave ==
    /\ is_receiving_command(Ed)
    /\ IsSaveLine(command_buffer)
    /\ HasTarget(command_buffer, document.filename)
    /\ last_op'.op = "overlay"
    /\ last_op'.key = KeyEnter
    /\ ~ last_op'.io_ok

\* C6 - a save command whose write fails is aborted with the error message
\* and leaves the recorded last-saved hash and the unsaved-edit counter as
\* they were: a document dirty before the failed save is dirty after it
C6_FailedSaveChangesNoBaseline ==
    [][ FailedSave =>
           /\ message' = MsgWriteError
           /\ last_saved_hash' = last_saved_hash
           /\ unsaved_edits' = unsaved_edits
           /\ (is_dirty(Ed) => is_dirty(Ed')) ]_vars

\* the command line names no command of the editor
IsUnknownLine(line) ==
    LET command == Tail(line)
        tokens == SplitOnSpace(command)
    IN  /\ line # << >>
        /\ Head(line) = COMMAND_PREFIX
        /\ command # << >>
        /\ \E i \in 1..Len(command) : ~ is_numeric(command[i])
        /\ IF Len(tokens) > 1
           THEN tokens[1] \notin { OPEN, OPEN_SHORT, NEW_CMD, SAVE }
           ELSE command \notin { FORCE_QUIT, QUIT, LINE_NUMBERS, STATS, HELP,
                                 SAVE, SAVE_AND_QUIT, DEBUG }

\* the step submits a malformed command: an unknown token, or :w with no
\* name on a document bound to no file
MalformedSubmitted ==
    /\ is_receiving_command(Ed)
    /\ last_op'.op = "overlay"
    /\ last_op'.key = KeyEnter
    /\ \/ IsUnknownLine(command_buffer)
       \/ /\ IsSaveLine(command_buffer)
          /\ Tail(command_buffer) # SAVE_AND_QUIT
          /\ ~ HasTarget(command_buffer, document.filename)

\* C8 - submitting a malformed command changes only the status message: the
\* rows, the cursor, the viewport offset, the mode, the dirty baseline and
\* should_quit are as before
C8_MalformedCommandChangesOnlyMessage ==
    [][ MalformedSubmitted =>
           /\ document' = document
           /\ cursor_position' = cursor_position
           /\ offset' = offset
           /\ mode' = mode
           /\ last_saved_hash' = last_saved_hash
           /\ should_quit' = should_quit ]_vars

-----------------------------------------------------------------------------
(* SpecOverlay: the command line.  The user opens it with : or /, types     *)
(* characters, some of them outside ASCII, and ends it with Enter or Esc.   *)

OverlayLines ==
    { Colon(<< U_B2 >>), Colon(<< U_E9 >>), Colon(<< "1" >>), Colon(QUIT),
      << SEARCH_PREFIX, "a" >> }

InitOverlay == EditorInit({ WriteFile(NoFiles, F, << "a", "a", "\n" >>) }, { F })

NextOverlay ==
    \/ \E key \in LineKeys(OverlayLines) : OverlayKey(key, TRUE, OverlayLines)
    \/ \E key \in { KeyChar(":"), KeyChar("/"), KeyChar("l"), KeyChar("h"),
                    KeyChar("n"), KeyEsc } : NormalKey(key)

SpecOverlay == InitOverlay /\ [][NextOverlay]_vars

\* the step handles the key while the command line is open
OverlayGets(keys) ==
    /\ is_receiving_command(Ed)
    /\ last_op'.op = "overlay"
    /\ last_op'.key \in keys

\* what stays as it is while the command line takes a key
OutsideTheCommandLine ==
    << document, cursor_position, offset, mode, normal_command_buffer,
       search_matches, current_search_match_index, should_quit, fs >>

\* C9 - while the command line is open, a key other than Enter changes
\* nothing but the command buffer: a character is appended, Backspace
\* removes the last character, Esc empties it, and the document, cursor,
\* viewport offset, mode, repetition buffer and search ring stay as they are
C9_OverlayKeyChangesOnlyTheBuffer ==
    [][ \A key \in LineKeys(OverlayLines) \ { KeyEnter } :
           OverlayGets({ key }) =>
              /\ ~ panicked'
              /\ UNCHANGED OutsideTheCommandLine
              /\ command_buffer' =
                    IF key.kind = "Char" THEN Append(command_buffer, key.c)
                    ELSE IF key = KeyBackspace
                    THEN SubSeq(command_buffer, 1, Len(command_buffer) - 1)
                    ELSE IF key = KeyEsc THEN << >>
                    ELSE command_buffer ]_vars

\* C10 - after Enter or Esc on the open command line the command line is
\* closed (the buffer is empty) whatever the command, and Esc has run nothing
C10_EnterAndEscCloseTheOverlay ==
    [][ /\ OverlayGets({ KeyEnter, KeyEsc }) =>
              /\ command_buffer' = << >>
              /\ ~ panicked'
        /\ OverlayGets({ KeyEsc }) => UNCHANGED OutsideTheCommandLine ]_vars

-----------------------------------------------------------------------------
(* SpecSwap: a long editing session.  The user types and deletes in Insert  *)
(* mode past the swap-file threshold; the session may stop after any key.   *)

\* the rows a new session gets when it opens the same path
Recovered(files, filename) == DocumentOpen(files, filename, TRUE).doc.rows

\* history: the edits made since the document last was what a new session
\* would recover, counted up to one past the threshold
Unrecovered(e) ==
    IF Recovered(e.fs, e.document.filename) = e.document.rows THEN 0
    ELSE IF e.document.rows = document.rows THEN last_op.lost
    ELSE Min(last_op.lost + 1, SWAP_SAVE_EVERY + 1)

InitSwap ==
    /\ EditorStarts({ NoFiles, WriteFile(NoFiles, F, << "a", "\n" >>) }, { F })
    /\ last_op = [op |-> "new", key |-> KeyOther, lost |-> 0]
    /\ ctor = [by |-> "editor", n |-> Len(document.rows),
               saved |-> document.rows]

\* i in Normal mode
SwapEnterInsert ==
    /\ Running
    /\ mode = "Normal"
    /\ LET e == process_keystroke(refresh_screen(Ed), KeyChar("i"), TRUE)
       IN  /\ Install(e)
           /\ last_op' = [op |-> "normal", key |-> KeyChar("i"),
                          lost |-> Unrecovered(e)]
    /\ UNCHANGED ctor

\* a key in Insert mode; the swap file can be written
SwapEdit(key) ==
    /\ Running
    /\ mode = "Insert"
    /\ LET e == process_keystroke(refresh_screen(Ed), key, TRUE)
       IN  /\ WithinBounds(e, U8Max)
           /\ Install(e)
           /\ last_op' = [op |-> "insert", key |-> key,
                          lost |-> Unrecovered(e)]
    /\ UNCHANGED ctor

NextSwap ==
    \/ SwapEnterInsert
    \/ \E key \in { KeyChar("a"), KeyBackspace } : SwapEdit(key)

SpecSwap == InitSwap /\ [][NextSwap]_vars

\* C4 - whenever the session stops, opening the same path again recovers
\* the document as it was at most SWAP_SAVE_EVERY edits before the stop
C4_AtMostTheLastEditsAreLost == last_op.lost <= SWAP_SAVE_EVERY

-----------------------------------------------------------------------------
(* SpecDoc: the Document alone.  A document is made by one of its public    *)
(* constructors, then its mutators are called with any indices, those       *)
(* beyond its bounds included.                                              *)

DocChars == { "a", " " }

\* the row vectors handed to new: none, one row, rows with trailing spaces
DocRowVectors ==
    { << >>, << << "a" >> >>, << << "a", " " >>, << >> >>,
      << << " " >>, << "a" >> >> }

\* what is on disk when open is called: no file, an empty file, a file of
\* one or two lines, and a swap file beside the file
DocFiles ==
    { NoFiles,
      WriteFile(NoFiles, F, << >>),
      WriteFile(NoFiles, F, << "a", "\n" >>),
      WriteFile(NoFiles, F, << "a", "\n", " ", "\n" >>),
      WriteFile(NoFiles, swap_filename(F), << "a", "\n" >>),
      WriteFile(WriteFile(NoFiles, F, << "a", "\n" >>),
                swap_filename(F), << >>) }

\* the editor's fields stay those of an editor nobody uses
IdleEditor(doc, files) ==
    LET e == EditorNew(NoFiles, NoName, TRUE)
    IN  /\ should_quit = e.should_quit
        /\ cursor_position = e.cursor_position
        /\ offset = e.offset
        /\ message = e.message
        /\ mode = e.mode
        /\ command_buffer = e.command_buffer
        /\ normal_command_buffer = e.normal_command_buffer
        /\ mouse_event_buffer = e.mouse_event_buffer
        /\ search_matches = e.search_matches
        /\ current_search_match_index = e.current_search_match_index
        /\ alternate_screen = e.alternate_screen
        /\ last_saved_hash = hashed(doc)
        /\ unsaved_edits = e.unsaved_edits
        /\ row_prefix_length = e.row_prefix_length
        /\ config = e.config
        /\ panicked = FALSE
        /\ document = doc
        /\ fs = files

NoOp == [op |-> "none", y |-> 0]

\* ctor.n: the rows handed to new, the lines of the file open reads, -1
\* where open finds no file
InitDoc ==
    /\ last_op = NoOp
    /\ \/ /\ ctor = [by |-> "default", n |-> 0]
          /\ IdleEditor(DocumentDefault, NoFiles)
       \/ /\ ctor = [by |-> "new_empty", n |-> 0]
          /\ IdleEditor(DocumentNewEmpty(F), NoFiles)
       \/ \E rows \in DocRowVectors :
             /\ ctor = [by |-> "new", n |-> Len(rows)]
             /\ IdleEditor(DocumentNew(rows, F), NoFiles)
       \/ \E files \in DocFiles :
             LET r == DocumentOpen(files, F, TRUE)
                 from == IF is_file(files, swap_filename(F))
                         THEN swap_filename(F) ELSE F
             IN  /\ ctor = [by |-> "open",
                            n |-> IF is_file(files, F)
                                  THEN Len(lines(files[from])) ELSE -1]
                 /\ IdleEditor(r.doc, files)

\* a mutator has returned r
Mutated(r, op, y) ==
    /\ ~ panicked
    /\ TextSize(r.rows) <= DocMaxText
    /\ document' = [document EXCEPT !.rows = r.rows]
    /\ panicked' = r.panic
    /\ last_op' = [op |-> op, y |-> y]
    /\ UNCHANGED << fs, editor_vars, ctor >>

Insert(c, x, y) == Mutated(DocInsert(document.rows, c, x, y), "insert", y)

Delete(x, from_x, y) ==
    Mutated(DocDelete(document.rows, x, from_x, y), "delete", y)

InsertNewline(x, y) ==
    Mutated(DocInsertNewline(document.rows, x, y), "insert_newline", y)

DeleteRow(y) == Mutated(DocDeleteRow(document.rows, y), "delete_row", y)

TrimTrailingSpaces ==
    Mutated(Done(trim_trailing_spaces(document.rows)), "trim_trailing_spaces", 0)

NextDoc ==
    \/ \E c \in DocChars, x \in 0..DocMaxIdx, y \in 0..DocMaxIdx : Insert(c, x, y)
    \/ \E x \in 0..DocMaxIdx, from_x \in 0..1, y \in 0..DocMaxIdx :
          Delete(x, from_x, y)
    \/ \E x \in 0..DocMaxIdx, y \in 0..DocMaxIdx : InsertNewline(x, y)
    \/ \E y \in 0..DocMaxIdx : DeleteRow(y)
    \/ TrimTrailingSpaces

SpecDoc == InitDoc /\ [][NextDoc]_vars

-----------------------------------------------------------------------------
(* The Document's row count *)

Mutators ==
    { "insert", "delete", "insert_newline", "delete_row", "trim_trailing_spaces" }

\* C1 - as stated: every document a public constructor produces,
\* and every document a mutator leaves behind, has at least one row
C1_AlwaysAtLeastOneRow == num_rows(document.rows) >= 1

\* C1 - amended: default, new_empty and open of a path that is no file
\* produce one row, new(rows) keeps the rows it is given and open of a file
\* has the file's lines, so a document has no row only where new was handed
\* an empty vector or open read a file of no line; every other document has
\* at least one row, whatever mutators ran
C1_NoRowOnlyWhenBuiltFromNothing ==
    /\ num_rows(document.rows) = 0 =>
          /\ ctor.by \in { "new", "open" }
          /\ ctor.n = 0
    /\ (last_op = NoOp /\ ctor.by \in { "default", "new_empty" }) =>
          num_rows(document.rows) = 1
    /\ (last_op = NoOp /\ ctor.by = "open" /\ ctor.n = -1) =>
          num_rows(document.rows) = 1
    /\ (last_op = NoOp /\ ctor.by \in { "new", "open" } /\ ctor.n >= 0) =>
          num_rows(document.rows) = ctor.n

\* C1 - delete_row has run on a document opened from a file and left its
\* only row in place
C1_OnlyRowSurvivesDeleteRow ==
    /\ ctor.by = "open"
    /\ ctor.n >= 1
    /\ last_op.op = "delete_row"
    /\ num_rows(document.rows) = 1

\* C2 - on a document of at least one row, insert, delete, insert_newline
\* and delete_row (and trim_trailing_spaces) called with any x and y, those
\* beyond the bounds included, return without failing and leave at least
\* one row
C2_MutatorsKeepARowAndReturn ==
    [][ num_rows(document.rows) >= 1 =>
           /\ num_rows(document'.rows) >= 1
           /\ ~ panicked' ]_vars

\* C2 - a mutator was called with a row index beyond the last row of a
\* document that had a row, and returned
C2_MutatorCalledOutOfBounds ==
    /\ last_op.op \in Mutators \ { "trim_trailing_spaces" }
    /\ last_op.y > num_rows(document.rows)
    /\ num_rows(document.rows) >= 1
    /\ ctor.n >= 1
    /\ ~ panicked

\* C3 - delete, insert_newline and delete_row called with a row index at
\* which no row exists (y >= num_rows) change nothing
C3_NoRowAtIndexIsNoOp ==
    [][ ( /\ last_op'.op \in { "delete", "insert_newline", "delete_row" }
          /\ last_op'.y >= num_rows(document.rows) ) =>
           document' = document ]_vars

-----------------------------------------------------------------------------
(* SpecMode: the modes and the command line.  The user switches between     *)
(* Normal and Insert mode, types : and / in both, and submits :new.         *)

ModeLines == { Colon(NEW_CMD \o << " " >> \o G), << SEARCH_PREFIX >> }

PrefixKeys == { KeyChar(COMMAND_PREFIX), KeyChar(SEARCH_PREFIX) }

InitMode == EditorInit({ WriteFile(NoFiles, F, << "a", "\n" >>) }, { F })

NextMode ==
    \/ \E key \in LineKeys(ModeLines) : OverlayKey(key, TRUE, ModeLines)
    \/ \E key \in PrefixKeys \cup { KeyChar("i"), KeyEsc } : NormalKey(key)
    \/ \E key \in PrefixKeys \cup { KeyEsc } : InsertKey(key, TRUE, MaxEdits)

SpecMode == InitMode /\ [][NextMode]_vars

\* C11 - the command line is opened only from Normal mode: after every
\* event an open command line implies Normal mode, and in Insert mode the
\* keys : and / are inserted as text and leave the command line closed
C11_OverlayOnlyInNormalMode ==
    [][ /\ is_receiving_command(Ed') => mode' = "Normal"
        /\ \A key \in PrefixKeys :
              (mode = "Insert" /\ last_op'.op = "insert" /\ last_op'.key = key) =>
                 /\ ~ is_receiving_command(Ed')
                 /\ mode' = "Insert"
                 /\ document'.rows =
                       DocInsert(document.rows, key.c, current_x_position(Ed),
                                 current_row_index(Ed)).rows ]_vars

\* C11 - : was typed in Insert mode, reached after :new put the editor in
\* Insert mode, and is in the text
C11_ColonTypedAfterNew ==
    /\ mode = "Insert"
    /\ last_op.op = "insert"
    /\ last_op.key = KeyChar(COMMAND_PREFIX)
    /\ document.filename = G
    /\ \E i \in 1..Len(document.rows) :
          \E j \in 1..Len(document.rows[i]) :
             document.rows[i][j] = COMMAND_PREFIX
    /\ ~ is_receiving_command(Ed)

-----------------------------------------------------------------------------
(* Motions on a document that is only looked at: the text is read from a    *)
(* file and no key of these specifications changes it.                      *)

\* a file of n lines of the given text
RECURSIVE FileOfLines(_, _)
FileOfLines(n, text) ==
    IF n = 0 THEN << >> ELSE text \o << "\n" >> \o FileOfLines(n - 1, text)

\* the text of k characters a
RECURSIVE TextOfLen(_)
TextOfLen(k) == IF k = 0 THEN << >> ELSE << "a" >> \o TextOfLen(k - 1)

\* the command line :n
DigitChar(n) == << "0", "1", "2", "3", "4", "5", "6", "7", "8", "9" >>[n + 1]
GotoLine(n) == Colon(<< DigitChar(n) >>)

\* an event on a document no key changes, the editor staying in Normal mode;
\* the history keeps the key and the digits that were pending when it came
Viewed(e, op, key) ==
    /\ e.document = document
    /\ e.mode = "Normal"
    /\ Len(e.normal_command_buffer) <= MaxDigits
    /\ Install(e)
    /\ last_op' = [op |-> op, key |-> key, pending |-> normal_command_buffer]
    /\ UNCHANGED ctor

\* a key in Normal mode, the command line closed
ViewKey(key) ==
    /\ Running
    /\ mode = "Normal"
    /\ ~ is_receiving_command(Ed)
    /\ key.c \notin UnmodelledNormalChars
    /\ Viewed(process_keystroke(refresh_screen(Ed), key, TRUE), "normal", key)

\* a key on the open command line; the user types the lines of Lines
ViewLineKey(key, Lines) ==
    /\ Running
    /\ mode = "Normal"
    /\ is_receiving_command(Ed)
    /\ LET e == process_keystroke(refresh_screen(Ed), key, TRUE)
       IN  /\ e.command_buffer \in Prefixes(Lines)
           /\ Viewed(e, "overlay", key)

\* the editor opened on a file, before any key
ViewInit(Files) ==
    /\ EditorStarts(Files, { F })
    /\ ~ panicked
    /\ num_rows(document.rows) >= 1
    /\ last_op = [op |-> "new", key |-> KeyOther, pending |-> << >>]
    /\ ctor = [by |-> "editor", n |-> Len(document.rows),
               saved |-> document.rows]

\* the step handles the key in Normal mode, the command line closed
NormalGets(keys) ==
    /\ ~ is_receiving_command(Ed)
    /\ last_op'.op = "normal"
    /\ last_op'.key \in keys

-----------------------------------------------------------------------------
(* SpecJump: jumps to a line.  The document has more rows than the screen;  *)
(* the user jumps with g, G, H, M, L and :n and moves with j and k.         *)

JumpLines == { GotoLine(n) : n \in 1..ViewMaxRows }

JumpKeys == { KeyChar("g"), KeyChar("G"), KeyChar("H"), KeyChar("M"),
              KeyChar("L") }

InitJump ==
    ViewInit({ WriteFile(NoFiles, F, FileOfLines(n, << "a" >>)) :
                  n \in 1..ViewMaxRows })

NextJump ==
    \/ \E key \in JumpKeys \cup { KeyChar("j"), KeyChar("k"), KeyChar(":") } :
          ViewKey(key)
    \/ \E key \in LineKeys(JumpLines) : ViewLineKey(key, JumpLines)

SpecJump == InitJump /\ [][NextJump]_vars

\* the row index the step jumps to, -1 when the step is no jump
JumpTarget ==
    IF is_receiving_command(Ed)
    THEN IF last_op'.key = KeyEnter /\ command_buffer \in JumpLines
         THEN ParseUsize(Tail(command_buffer)).value - 1
         ELSE -1
    ELSE CASE last_op'.key = KeyChar("g") -> 0
           [] last_op'.key = KeyChar("G") -> num_rows(document.rows) - 1
           [] last_op'.key = KeyChar("H") -> offset.rows
           [] last_op'.key = KeyChar("M") ->
                 middle_of_screen_line_number + offset.rows
           [] last_op'.key = KeyChar("L") -> TermHeight + offset.rows
           [] OTHER -> -1

\* C12 - after a direct jump to a line of the document the cursor is
\* visible: its screen row is at least 0 and below the terminal height, and
\* screen row plus vertical offset is the index of the target row
C12_JumpLeavesCursorVisible ==
    [][ (JumpTarget >= 0 /\ JumpTarget < num_rows(document.rows)) =>
           /\ cursor_position'.y >= 0
           /\ cursor_position'.y < TermHeight
           /\ cursor_position'.y + offset'.rows = JumpTarget ]_vars


-----------------------------------------------------------------------------
(* SpecRow: two rows of up to ViewMaxLen characters under a window of
   TermWidth columns, walked with $ 0 l h j k (editor.rs:445-493, 821-927) *)

RowKeys ==
    { KeyChar("$"), KeyChar("0"), KeyChar("l"), KeyChar("h"),
      KeyChar("j"), KeyChar("k") }

InitRow ==
    ViewInit({ WriteFile(NoFiles, F,
                   TextOfLen(k1) \o << "\n" >> \o TextOfLen(k2) \o << "\n" >>) :
               k1 \in 1..ViewMaxLen, k2 \in 1..ViewMaxLen })

NextRow == \E key \in RowKeys : ViewKey(key)

SpecRow == InitRow /\ [][NextRow]_vars

\* absolute column of the cursor
AbsoluteColumn(position, off) == position.x + off.columns

\* the column asked of move_cursor_to_position_x by $ and by 0
ColumnTarget ==
    IF last_op'.key = KeyChar("$")
    THEN SatSub(RowLen(current_row(Ed)), 1)
    ELSE 0

\* C13 - as stated: after a direct jump to column x ($ jumps to the last
\* character of the row, 0 to column 0) the absolute column
\* cursor_position.x + offset.columns is x and the screen column is inside the
\* window (< terminal width), whatever the horizontal offset was before
C13_ColumnJumpLandsOnTarget ==
    [][ NormalGets({ KeyChar("$"), KeyChar("0") }) =>
           /\ AbsoluteColumn(cursor_position', offset') = ColumnTarget
           /\ cursor_position'.x < TermWidth ]_vars


\* the last column a Normal-mode cursor may stand on in the current row
LastColumn == SatSub(RowLen(current_row(Ed)), 1)

\* C15 - as stated: within one row, l increases the absolute column
\* cursor_position.x + offset.columns by one unless the cursor is at the last
\* valid column, and h decreases it by one whenever it is greater than 0, so
\* that k moves right followed by k moves left return to the starting column,
\* also in a row wider than the screen
C15_HorizontalMotionIsSymmetric ==
    [][ /\ NormalGets({ KeyChar("l") }) =>
              AbsoluteColumn(cursor_position', offset') =
                 IF AbsoluteColumn(cursor_position, offset) >= LastColumn
                 THEN AbsoluteColumn(cursor_position, offset)
                 ELSE AbsoluteColumn(cursor_position, offset) + 1
        /\ NormalGets({ KeyChar("h") }) =>
              AbsoluteColumn(cursor_position', offset') =
                 IF AbsoluteColumn(cursor_position, offset) > 0
                 THEN AbsoluteColumn(cursor_position, offset) - 1
                 ELSE 0 ]_vars


-----------------------------------------------------------------------------
(* SpecMove: up to ViewMaxRows lines of one to three characters, walked with
   h j k l, with and without a count (editor.rs:445-509, 821-886) *)

\* the length of line i of the file
MoveLineLen(i) == 1 + (i % 3)

RECURSIVE MoveFile(_, _)
MoveFile(i, n) ==
    IF i > n THEN << >>
    ELSE TextOfLen(MoveLineLen(i)) \o << "\n" >> \o MoveFile(i + 1, n)

MotionKeys == { KeyChar("h"), KeyChar("j"), KeyChar("k"), KeyChar("l") }
CountKeys == { KeyChar("0"), KeyChar("1"), KeyChar("2") }

InitMove == ViewInit({ WriteFile(NoFiles, F, MoveFile(1, n)) : n \in 1..ViewMaxRows })

NextMove ==
    \/ \E key \in MotionKeys : ViewKey(key)
    \/ \E key \in CountKeys : ViewKey(key)

SpecMove == InitMove /\ [][NextMove]_vars

\* the count the pending digits stand for
Repetitions ==
    IF normal_command_buffer = << >> THEN 1
    ELSE ParseUsize(normal_command_buffer).value

C20_TwoDownMovedTwoLines ==
    /\ last_op = [op |-> "normal", key |-> KeyChar("j"), pending |-> << "2" >>]
    /\ normal_command_buffer = << >>
    /\ current_row_index(Ed) = 2
    /\ num_rows(document.rows) > 3


-----------------------------------------------------------------------------
(* SpecEdit: Backspace and Enter in Insert mode on files of up to
   EditMaxRows lines, more than the screen shows, which the user walks with
   h j k l before editing (editor.rs:512-567; document.rs:175-211) *)

EditNormalKeys == MotionKeys \cup { KeyChar("i") }
EditInsertKeys == { KeyBackspace, KeyEnter, KeyEsc, KeyChar("c") }

InitEdit ==
    EditorInit({ WriteFile(NoFiles, F, FileOfLines(n, << "a", "b" >>)) :
                 n \in 1..EditMaxRows }, { F })

\* a key in Normal or Insert mode, at most EditMaxEdits edits in all
EditKey(kind, key) ==
    /\ Running
    /\ ~ is_receiving_command(Ed)
    /\ mode = kind
    /\ LET e == process_keystroke(refresh_screen(Ed), key, TRUE)
       IN  /\ e.unsaved_edits <= EditMaxEdits
           /\ Install(e)
    /\ last_op' = KeyOp(IF kind = "Normal" THEN "normal" ELSE "insert", key, TRUE)
    /\ UNCHANGED ctor

NextEdit ==
    \/ \E key \in EditNormalKeys : EditKey("Normal", key)
    \/ \E key \in EditInsertKeys : EditKey("Insert", key)

SpecEdit == InitEdit /\ [][NextEdit]_vars

\* the step handles the key in Insert mode
InsertGets(key) ==
    /\ mode = "Insert"
    /\ last_op'.op = "insert"
    /\ last_op'.key = key

\* C16 - as stated: Backspace in Insert mode at column 0 of any line other
\* than the first merges the line into the previous one: one row fewer, the
\* previous row is its old text followed by the merged text, the other rows
\* keep their order, and the cursor is on the previous line at its old length
C16_BackspaceAtLineStartMerges ==
    [][ LET r == current_row_index(Ed)
            rows == document.rows
        IN  (InsertGets(KeyBackspace) /\ current_x_position(Ed) = 0 /\ r > 0
                /\ r < Len(rows)) =>
               /\ document'.rows =
                     SubSeq(rows, 1, r - 1) \o << rows[r] \o rows[r + 1] >>
                        \o SubSeq(rows, r + 2, Len(rows))
               /\ current_row_index(Ed') = r - 1
               /\ current_x_position(Ed') = Len(rows[r]) ]_vars

\* C17 - as stated: Enter in Insert mode at absolute column x of row r leaves
\* the first x characters on row r, puts the characters from x onward on a
\* new row r + 1, shifts the later rows down, and moves the cursor to column
\* 0 of row r + 1
C17_EnterSplitsTheRowAtTheCursor ==
    [][ LET r == current_row_index(Ed)
            x == current_x_position(Ed)
            rows == document.rows
        IN  (InsertGets(KeyEnter) /\ r < Len(rows)) =>
               /\ document'.rows =
                     SubSeq(rows, 1, r) \o << Take(rows[r + 1], x), Skip(rows[r + 1], x) >>
                        \o SubSeq(rows, r + 2, Len(rows))
               /\ current_row_index(Ed') = r + 1
               /\ current_x_position(Ed') = 0 ]_vars


-----------------------------------------------------------------------------
(* SpecSearch: the search ring.  The user searches for b in files of up to
   SearchMaxRows lines, some without a match and some with the match beyond
   the width of the screen, and walks the matches with n and N
   (editor.rs:401-428, 765-806) *)

SearchPattern == << "b" >>
SearchLine == << SEARCH_PREFIX >> \o SearchPattern

\* the lines of the files: a match at column 1, no match, a match at column
\* TermWidth + 1
SearchFileLines ==
    { << "a", "b" >>, << "a" >>, TextOfLen(TermWidth + 1) \o << "b" >> }

RECURSIVE JoinLines(_)
JoinLines(ls) ==
    IF ls = << >> THEN << >> ELSE Head(ls) \o << "\n" >> \o JoinLines(Tail(ls))

SearchFiles ==
    { WriteFile(NoFiles, F, JoinLines(ls)) :
        ls \in UNION { [1..n -> SearchFileLines] : n \in 1..SearchMaxRows } }

\* history: the event, and how many n (N) in a row the user has pressed
\* since the fresh search (since the first match was current); 0 when the
\* presses are not such a run or the run has gone round the ring
SearchOp(op, key, streak) == [op |-> op, key |-> key, streak |-> streak]

Streak(e, key) ==
    LET run ==
          IF key = KeyChar("n")
          THEN IF last_op.op = "search" THEN 1
               ELSE IF last_op.op = "next" /\ last_op.streak > 0
                    THEN last_op.streak + 1
                    ELSE 0
          ELSE IF key = KeyChar("N")
          THEN IF last_op.op = "previous"
               THEN IF last_op.streak > 0 THEN last_op.streak + 1 ELSE 0
               ELSE IF current_search_match_index = 0 THEN 1 ELSE 0
          ELSE 0
    IN  IF run > Len(e.search_matches) THEN 0 ELSE run

InitSearch ==
    /\ EditorStarts(SearchFiles, { F })
    /\ ~ panicked
    /\ num_rows(document.rows) >= 1
    /\ last_op = SearchOp("new", KeyOther, 0)
    /\ ctor = [by |-> "editor", n |-> Len(document.rows),
               saved |-> document.rows]

\* a key in Normal mode, the command line closed
SearchNormalKey(key) ==
    /\ Running
    /\ mode = "Normal"
    /\ ~ is_receiving_command(Ed)
    /\ LET e == process_keystroke(refresh_screen(Ed), key, TRUE)
       IN  /\ Install(e)
           /\ last_op' = SearchOp(CASE key = KeyChar("n") -> "next"
                                    [] key = KeyChar("N") -> "previous"
                                    [] OTHER -> "normal",
                                  key, Streak(e, key))
    /\ UNCHANGED ctor

\* a key on the open command line; the user types the search for b
SearchLineKey(key) ==
    /\ Running
    /\ mode = "Normal"
    /\ is_receiving_command(Ed)
    /\ LET e == process_keystroke(refresh_screen(Ed), key, TRUE)
       IN  /\ e.command_buffer \in Prefixes({ SearchLine })
           /\ Install(e)
           /\ last_op' = SearchOp(IF key = KeyEnter /\ command_buffer = SearchLine
                                  THEN "search" ELSE "overlay", key, 0)
    /\ UNCHANGED ctor

NextSearch ==
    \/ \E key \in { KeyChar(SEARCH_PREFIX), KeyChar("n"), KeyChar("N"),
                    KeyChar("j"), KeyEsc } : SearchNormalKey(key)
    \/ \E key \in LineKeys({ SearchLine }) : SearchLineKey(key)

SpecSearch == InitSearch /\ [][NextSearch]_vars

\* the cursor is on the first character of match number index (from 0)
CursorAtMatch(index) ==
    /\ current_row_index(Ed) = search_matches[index + 1][1].y - 1
    /\ current_x_position(Ed) = search_matches[index + 1][1].x

\* C18 - as stated: with n >= 1 matches, n presses of the n key in a row right
\* after a fresh search return to the first match: it is the current match
\* again and the cursor is at its start
C18_AdvancesReturnToFirstMatch ==
    (last_op.op = "next" /\ last_op.streak >= 1
        /\ last_op.streak = Len(search_matches)) =>
        /\ current_search_match_index = 0
        /\ CursorAtMatch(0)

\* C19 - as stated: with n >= 1 matches, n presses of the N key in a row
\* starting from the first match land on the last match
C19_RetreatsLandOnLastMatch ==
    (last_op.op = "previous" /\ last_op.streak >= 1
        /\ last_op.streak = Len(search_matches)) =>
        current_search_match_index = Len(search_matches) - 1

\* C19 - k presses of the N key in a row starting from the first of n matches
\* make match (n - k) mod n the current one, with the cursor on its row: one
\* press lands on the last match, n presses are back on the first
C19_RetreatsGoRoundTheRing ==
    (last_op.op = "previous" /\ last_op.streak > 0) =>
        /\ current_search_match_index =
              (Len(search_matches) - last_op.streak) % Len(search_matches)
        /\ current_row_index(Ed) =
              search_matches[current_search_match_index + 1][1].y - 1

\* C19 - with three matches, three presses of N from the first match have
\* come back to the first match
C19_ThreeRetreatsBackOnFirst ==
    /\ last_op.op = "previous"
    /\ last_op.streak = 3
    /\ Len(search_matches) = 3
    /\ current_search_match_index = 0


-----------------------------------------------------------------------------
(* SpecMouse: clicks in a scrolled view.  The files have up to ViewMaxRows
   lines of one to three characters; the user scrolls with j and k and
   clicks on the cells of the screen (editor.rs:201-223) *)

\* the position Console::get_cursor_index_from_mouse_event yields for a
\* press: a function of the device coordinates and the gutter width alone,
\* a cell of the screen
ScreenCells == { [x |-> x, y |-> y] : x \in 0..(TermWidth - 1), y \in 0..(TermHeight - 1) }

MousePress(pos) == [kind |-> "Press", pos |-> pos]
MouseRelease == [kind |-> "Release", pos |-> top_left]

\* a mouse event in Normal mode, the command line closed
ViewMouse(mouse_event) ==
    /\ Running
    /\ mode = "Normal"
    /\ ~ is_receiving_command(Ed)
    /\ LET e == process_mouse_event(refresh_screen(Ed), mouse_event)
       IN  /\ Len(e.mouse_event_buffer) <= MaxClicks
           /\ Viewed(e, "mouse", mouse_event)

InitMouse == ViewInit({ WriteFile(NoFiles, F, MoveFile(1, n)) : n \in 1..ViewMaxRows })

NextMouse ==
    \/ \E key \in { KeyChar("j"), KeyChar("k") } : ViewKey(key)
    \/ \E pos \in ScreenCells : ViewMouse(MousePress(pos))
    \/ ViewMouse(MouseRelease)

SpecMouse == InitMouse /\ [][NextMouse]_vars

\* the step handles a release with a press pending
ReleaseGets ==
    /\ last_op'.op = "mouse"
    /\ last_op'.key = MouseRelease
    /\ mouse_event_buffer # << >>

\* the position of the pending press
Clicked == mouse_event_buffer[Len(mouse_event_buffer)]

\* the document row under the cursor placed at position exists and the
\* column of position is within its length
OnText(position) ==
    /\ position.y + offset.rows < num_rows(document.rows)
    /\ position.x <= RowLen(document.rows[position.y + offset.rows + 1])

\* C21 - as stated: after a mouse release the cursor has moved to the clicked
\* position only if the document row under the new cursor
\* (cursor_position.y + offset.rows) exists and the clicked column is within
\* that row's length; otherwise the click is discarded, cursor and offset
\* unchanged; the release pops the buffer in both cases
C21_ClickMovesOnlyOntoText ==
    [][ ReleaseGets =>
           /\ mouse_event_buffer' = SubSeq(mouse_event_buffer, 1, Len(mouse_event_buffer) - 1)
           /\ offset' = offset
           /\ cursor_position' \in { cursor_position, Clicked }
           /\ ~ OnText(Clicked) => cursor_position' = cursor_position ]_vars


-----------------------------------------------------------------------------
(* SpecCount: the unsaved-edit counter.  The editor is started with or
   without a file name; the user types and deletes in Insert mode past the
   swap-file threshold, the swap file being writable
   (editor.rs:387-391, 512-567; document.rs:47-55, 84-93) *)

InitCount ==
    /\ EditorStarts({ NoFiles, WriteFile(NoFiles, F, << "a", "\n" >>) }, { NoName, F })
    /\ last_op = [op |-> "new", key |-> KeyOther]
    /\ ctor = [by |-> "editor", n |-> Len(document.rows),
               saved |-> document.rows]

\* a key in Normal mode (kind "Normal") or in Insert mode (kind "Insert")
CountKey(kind, key) ==
    /\ Running
    /\ ~ is_receiving_command(Ed)
    /\ mode = kind
    /\ LET e == process_keystroke(refresh_screen(Ed), key, TRUE)
       IN  /\ TextSize(e.document.rows) <= MaxText
           /\ Install(e)
    /\ last_op' = [op |-> IF kind = "Normal" THEN "normal" ELSE "insert", key |-> key]
    /\ UNCHANGED ctor

NextCount ==
    \/ CountKey("Normal", KeyChar("i"))
    \/ \E key \in { KeyChar("a"), KeyBackspace, KeyEsc } : CountKey("Insert", key)

SpecCount == InitCount /\ [][NextCount]_vars

\* the step handles a key of Insert mode other than Esc
InsertEdits ==
    /\ mode = "Insert"
    /\ last_op'.op = "insert"
    /\ last_op'.key # KeyEsc

\* C22 - as stated: every insert-mode edit increments the unsaved-edit counter
\* by one; the edit that brings it to SWAP_SAVE_EVERY writes the buffer to the
\* swap file and resets the counter to 0, and no other edit touches the
\* files; so the counter is below SWAP_SAVE_EVERY after every event
C22_SwapFileEveryHundredthEdit ==
    [][ /\ unsaved_edits' < SWAP_SAVE_EVERY
        /\ InsertEdits =>
              /\ ~ panicked'
              /\ IF unsaved_edits + 1 = SWAP_SAVE_EVERY
                 THEN /\ unsaved_edits' = 0
                      /\ ~ swap_filename_panics(document.filename)
                      /\ fs' = WriteFile(fs, swap_filename(document.filename),
                                         WriteRows(document'.rows))
                 ELSE /\ unsaved_edits' = unsaved_edits + 1
                      /\ fs' = fs ]_vars


-----------------------------------------------------------------------------
(* SpecFile: a Document and the files behind it.  A file of any short
   content is opened; the document is edited, saved, saved to its swap file
   and opened again from the same path (document.rs:47-116) *)

\* the characters a file is made of: a letter, a carriage return, a line feed
FileChars == { "a", "\r", "\n" }

\* what is on disk under the path when it is first opened
FileContents == SeqsUpTo(FileChars, FileMaxText)

InitFile ==
    \E content \in FileContents :
       LET files == WriteFile(NoFiles, F, content)
       IN  /\ IdleEditor(DocumentOpen(files, F, TRUE).doc, files)
           /\ last_op = [op |-> "open", rows |-> << >>]
           /\ ctor = [by |-> "open", n |-> Len(lines(content))]

\* a step of the document; the history keeps the rows it had before
FileStep(doc, files, op) ==
    /\ ~ panicked
    /\ document' = doc
    /\ fs' = files
    /\ last_op' = [op |-> op, rows |-> document.rows]
    /\ UNCHANGED << editor_vars, panicked, ctor >>

\* Document::insert of a letter
FileInsert(x, y) ==
    LET r == DocInsert(document.rows, "a", x, y)
    IN  /\ TextSize(r.rows) <= DocMaxText
        /\ FileStep([document EXCEPT !.rows = r.rows], fs, "insert")

\* Document::save, the file being writable
FileSave == FileStep(document, DocumentSave(fs, document, TRUE).fs, "save")

\* Document::save_to_swap_file, the swap file being writable
FileSaveToSwap ==
    /\ ~ swap_filename_panics(document.filename)
    /\ FileStep(document, DocumentSaveToSwapFile(fs, document, TRUE).fs, "swap")

\* Document::open of the document's own path, the file being readable
FileOpen == FileStep(DocumentOpen(fs, document.filename, TRUE).doc, fs, "open")

NextFile ==
    \/ \E x \in 0..1, y \in 0..1 : FileInsert(x, y)
    \/ FileSave
    \/ FileSaveToSwap
    \/ FileOpen

SpecFile == InitFile /\ [][NextFile]_vars

\* C23 - as stated: for every document bound to a path, save followed by
\* open of the same path yields a document with the same number of rows and
\* the same text in each row, in the same order
C23_SaveThenOpenRoundTrips ==
    [][ (last_op.op = "save" /\ last_op'.op = "open") =>
           document'.rows = document.rows ]_vars


\* C24 - if both the real file and its swap file exist, open loads the rows
\* of the swap file, not those of the real file, and binds the document to
\* the path of the real file
C24_OpenPrefersTheSwapFile ==
    [][ (last_op'.op = "open" /\ is_file(fs, document.filename)
           /\ is_file(fs, swap_filename(document.filename))) =>
           /\ document'.rows = lines(fs[swap_filename(document.filename)])
           /\ document'.filename = document.filename ]_vars

\* C24 - a document was opened while its file and its swap file both existed
\* with different lines, and has the lines of the swap file
C24_OpenedFromDifferingSwapFile ==
    /\ last_op.op = "open"
    /\ is_file(fs, F)
    /\ is_file(fs, swap_filename(F))
    /\ lines(fs[F]) # lines(fs[swap_filename(F)])
    /\ document.rows = lines(fs[swap_filename(F)])
    /\ document.filename = F


-----------------------------------------------------------------------------
(* SpecHello: a new file written under another name.  The editor starts on  *)
(* a path that does not exist; the user types hello, leaves Insert mode,    *)
(* saves the buffer as out.txt, and an editor is started on out.txt.        *)

Hello == << "h", "e", "l", "l", "o" >>
OutTxt == << "o", "u", "t", ".", "t", "x", "t" >>
SaveOutLine == Colon(SAVE \o << " " >> \o OutTxt)

InitHello ==
    /\ EditorStarts({ NoFiles }, { F })
    /\ last_op = [op |-> "new", key |-> KeyOther, cmd |-> << >>]
    /\ ctor = [by |-> "editor", n |-> Len(document.rows), saved |-> document.rows]

\* a key in Normal mode, in Insert mode, or on the command line (kind
\* "overlay"); the user types prefixes of hello and of :w out.txt, and
\* submits the whole command line only
HelloKey(kind, key) ==
    /\ Running
    /\ (kind = "overlay" /\ key = KeyEnter) => command_buffer = SaveOutLine
    /\ IF kind = "overlay" THEN is_receiving_command(Ed)
       ELSE ~ is_receiving_command(Ed) /\ mode = kind
    /\ LET e == process_keystroke(refresh_screen(Ed), key, TRUE)
       IN  /\ e.document.rows \in { << p >> : p \in Prefixes({ Hello }) }
           /\ e.command_buffer \in Prefixes({ SaveOutLine })
           /\ Install(e)
    /\ last_op' = [op |-> kind, key |-> key,
                   cmd |-> IF key = KeyEnter THEN command_buffer ELSE << >>]
    /\ UNCHANGED ctor

\* Editor::new on out.txt, with the files as the running editor left them
HelloOpensOut ==
    /\ Running
    /\ ~ is_receiving_command(Ed)
    /\ mode = "Normal"
    /\ Install(EditorNew(fs, OutTxt, TRUE))
    /\ last_op' = [op |-> "open", key |-> KeyOther, cmd |-> << >>]
    /\ UNCHANGED ctor

NextHello ==
    \/ \E key \in { KeyChar("i"), KeyChar(":") } : HelloKey("Normal", key)
    \/ \E key \in { KeyChar("h"), KeyChar("e"), KeyChar("l"), KeyChar("o"),
                    KeyEsc } : HelloKey("Insert", key)
    \/ \E key \in { KeyChar(SaveOutLine[i]) : i \in 2..Len(SaveOutLine) }
                    \cup { KeyEnter, KeyEsc } : HelloKey("overlay", key)
    \/ HelloOpensOut

SpecHello == InitHello /\ [][NextHello]_vars

\* C25 - opening a path that does not exist yields a document of one empty
\* row; after hello is typed in Insert mode, Esc and :w out.txt, opening
\* out.txt yields exactly the row hello (and, for any buffer saved so, exactly
\* the rows that were saved)
C25_NewFileSavedAsReopens ==
    /\ [](last_op.op = "new" => document.rows = << EmptyRow >>)
    /\ [][ (/\ last_op.op = "overlay"
            /\ last_op.key = KeyEnter
            /\ last_op.cmd = SaveOutLine
            /\ last_op'.op = "open") =>
              /\ document'.rows = document.rows
              /\ (document.rows = << Hello >> => document'.rows = << Hello >>)
              /\ ~ panicked' ]_vars

\* C25 - an editor started on out.txt, right after a buffer typed from
\* nothing was saved under that name, shows the single row hello
C25_OutTxtHoldsHello ==
    /\ last_op.op = "open"
    /\ document.rows = << Hello >>
    /\ document.filename = OutTxt
    /\ fs[OutTxt] = Hello \o << "\n" >>
    /\ ~ is_file(fs, F)


-----------------------------------------------------------------------------
(* SpecMatch: the matching symbol.  The document is one line of brackets    *)
(* and letters, or two short lines; the user moves with h j k l and jumps   *)
(* with m.                                                                  *)

MatchMaxLen == 7

MatchChars == { "(", ")", "a" }
NestedLine == << "(", "a", "(", "b", ")", "c", ")" >>

MatchFiles ==
    { WriteFile(NoFiles, F, JoinLines(<< l >>)) :
        l \in (SeqsUpTo(MatchChars, MatchMaxLen) \ { << >> }) \cup { NestedLine } }
    \cup
    { WriteFile(NoFiles, F, JoinLines(<< l1, l2 >>)) :
        l1, l2 \in SeqsUpTo(MatchChars, 2) \ { << >> } }

InitMatch == ViewInit(MatchFiles)

NextMatch ==
    \/ \E key \in MotionKeys : ViewKey(key)
    \/ ViewKey(KeyChar("m"))

SpecMatch == InitMatch /\ [][NextMatch]_vars

\* the characters of the document in reading order, each with its column
\* and its row
RECURSIVE FlatFrom(_, _)
FlatFrom(rows, y) ==
    IF y >= Len(rows) THEN << >>
    ELSE [x \in 1..Len(rows[y + 1]) |-> [c |-> rows[y + 1][x], x |-> x - 1, y |-> y]]
         \o FlatFrom(rows, y + 1)

Flat == FlatFrom(document.rows, 0)

\* the places of the flat text where the cursor is
CursorPlaces ==
    { p \in 1..Len(Flat) : /\ Flat[p].x = current_x_position(Ed)
                            /\ Flat[p].y = current_row_index(Ed) }

\* openers minus closers among the places i..j of the flat text
RECURSIVE Balance(_, _, _, _)
Balance(i, j, opener, closer) ==
    IF i > j THEN 0
    ELSE (IF Flat[i].c = opener THEN 1 ELSE IF Flat[i].c = closer THEN -1 ELSE 0)
         + Balance(i + 1, j, opener, closer)

\* the closer that matches the opener at place p: the first place after p
\* where the balance from p is zero; the opener that matches the closer at p
MatchingCloser(p) ==
    { q \in (p + 1)..Len(Flat) :
        /\ Balance(p, q, Flat[p].c, ClosingOf(Flat[p].c)) = 0
        /\ \A r \in (p + 1)..(q - 1) :
              Balance(p, r, Flat[p].c, ClosingOf(Flat[p].c)) # 0 }

MatchingOpener(p) ==
    { q \in 1..(p - 1) :
        /\ Balance(q, p, OpeningOf(Flat[p].c), Flat[p].c) = 0
        /\ \A r \in (q + 1)..(p - 1) :
              Balance(r, p, OpeningOf(Flat[p].c), Flat[p].c) # 0 }

\* the places m has to reach from place p
MatchOf(p) ==
    IF Flat[p].c = "(" THEN MatchingCloser(p)
    ELSE IF Flat[p].c = ")" THEN MatchingOpener(p)
    ELSE { }

\* C26 - as stated: with the cursor on an opening symbol, m moves the cursor
\* to the closer at which the nesting depth returns to zero, and with the
\* cursor on a closer to the matching opener; when there is no match, cursor
\* and offset are unchanged; no error occurs
C26_MatchingSymbolIsReached ==
    [][ NormalGets({ KeyChar("m") }) =>
           /\ ~ panicked'
           /\ \A p \in CursorPlaces :
                 IF MatchOf(p) = { }
                 THEN cursor_position' = cursor_position /\ offset' = offset
                 ELSE \E q \in MatchOf(p) :
                        /\ current_x_position(Ed') = Flat[q].x
                        /\ current_row_index(Ed') = Flat[q].y ]_vars


-----------------------------------------------------------------------------
(* The Document's read-only queries (document.rs:118-148) *)

None == [some |-> FALSE, row |-> EmptyRow]
Some(row) == [some |-> TRUE, row |-> row]

\* Document::get_row: Vec::get
DocGetRow(rows, index) ==
    IF index < Len(rows) THEN Some(rows[index + 1]) ELSE None

\* variant of row_for_line_number that takes the line number for an index
row_for_line_number_CountsFromZero(rows, line_number) ==
    DocGetRow(rows, line_number)

\* Document::row_for_line_number
row_for_line_number(rows, line_number) ==
    DocGetRow(rows, SatSub(line_number, 1))

\* Row::num_words is not in this source tree: the number of words of the
\* row, the runs of characters that are not whitespace (specification,
\* section 3, Row)
RECURSIVE RowNumWords(_)
RowNumWords(r) ==
    IF r = << >> THEN 0
    ELSE (IF /\ ~ IsWhitespace(Head(r))
             /\ (Len(r) = 1 \/ IsWhitespace(r[2]))
          THEN 1 ELSE 0) + RowNumWords(Tail(r))

\* Document::num_words: the sum over the iterator of the rows
RECURSIVE num_words(_)
num_words(rows) ==
    IF rows = << >> THEN 0 ELSE RowNumWords(Head(rows)) + num_words(Tail(rows))

\* the sum of f(1) .. f(n)
RECURSIVE SumTo(_, _)
SumTo(f, n) == IF n = 0 THEN 0 ELSE f[n] + SumTo(f, n - 1)

\* C27 - get_row(i) is row i for i < num_rows and nothing otherwise;
\* row_for_line_number(n) is row n - 1 for 1 <= n <= num_rows;
\* last_line_number() = num_rows(); is_empty() iff num_rows() = 0;
\* num_words() is the sum of the word counts of the rows
C27_QueriesReadTheRows ==
    LET rows == document.rows
    IN  /\ \A i \in 0..(DocMaxIdx + 2) :
              IF i < num_rows(rows)
              THEN DocGetRow(rows, i).some /\ DocGetRow(rows, i).row = rows[i + 1]
              ELSE ~ DocGetRow(rows, i).some
        /\ \A n \in 1..num_rows(rows) :
              /\ row_for_line_number(rows, n).some
              /\ row_for_line_number(rows, n).row = rows[n]
        /\ last_line_number(rows) = num_rows(rows)
        /\ is_empty(rows) <=> num_rows(rows) = 0
        /\ num_words(rows) =
              SumTo([i \in 1..Len(rows) |-> RowNumWords(rows[i])], Len(rows))

\* C27 - a document of two different rows, edited into that shape: line 2
\* is its second row, there is no row 2, and it counts the one word it has
C27_TwoDifferentRows ==
    /\ last_op.op = "insert"
    /\ num_rows(document.rows) = 2
    /\ num_words(document.rows) = 1
    /\ row_for_line_number(document.rows, 2) = Some(document.rows[2])
    /\ document.rows[2] # document.rows[1]
    /\ DocGetRow(document.rows, 2) = None
    /\ ~ is_empty(document.rows)


\* C28 - as stated: in every state reached by an editor started on a document
\* of at least one row, the cursor is on a row of the document
\* (cursor_position.y + offset.rows < num_rows), so that the unwrap of
\* current_row() never fails
C28_CursorStaysOnARow ==
    /\ current_row_index(Ed) < num_rows(document.rows)
    /\ ~ panicked


-----------------------------------------------------------------------------
(* SpecLine: editing from Normal mode.  The document has one or two short   *)
(* lines; the user moves with h j k l, deletes the character under the      *)
(* cursor with x, opens lines with o and O and leaves Insert mode with Esc. *)

LineMaxRows == 4

LineTexts == { << >>, << "a" >>, << "a", "b" >>, << "a", "b", "c" >> }

LineFiles ==
    { WriteFile(NoFiles, F, JoinLines(ls)) :
        ls \in UNION { [1..n -> LineTexts] : n \in 1..2 } }

InitLine ==
    /\ EditorStarts(LineFiles, { F })
    /\ ~ panicked
    /\ num_rows(document.rows) >= 1
    /\ last_op = [op |-> "new", key |-> KeyOther]
    /\ ctor = [by |-> "editor", n |-> Len(document.rows), saved |-> document.rows]

\* a key in Normal mode (kind "Normal") or in Insert mode (kind "Insert")
LineKey(kind, key) ==
    /\ Running
    /\ ~ is_receiving_command(Ed)
    /\ mode = kind
    /\ LET e == process_keystroke(refresh_screen(Ed), key, TRUE)
       IN  /\ Len(e.document.rows) <= LineMaxRows
           /\ Install(e)
    /\ last_op' = [op |-> IF kind = "Normal" THEN "normal" ELSE "insert", key |-> key]
    /\ UNCHANGED ctor

NextLine ==
    \/ \E key \in MotionKeys \cup { KeyChar("x"), KeyChar("o"), KeyChar("O") } :
          LineKey("Normal", key)
    \/ LineKey("Insert", KeyEsc)

SpecLine == InitLine /\ [][NextLine]_vars

\* C29 - as stated: x in Normal mode deletes exactly the character under the
\* cursor: the row count and every other row are unchanged and the current
\* row loses the grapheme at the absolute column of the cursor (it is
\* unchanged when the column is past its end), at every cursor position,
\* column 0 of a line other than the first included
C29_XDeletesTheCharacterUnderTheCursor ==
    [][ NormalGets({ KeyChar("x") }) =>
           LET r == current_row_index(Ed)
               x == current_x_position(Ed)
           IN  /\ ~ panicked'
               /\ Len(document'.rows) = Len(document.rows)
               /\ \A i \in 1..Len(document.rows) :
                     document'.rows[i] =
                        IF i = r + 1 /\ x < RowLen(document.rows[i])
                        THEN Take(document.rows[i], x) \o Skip(document.rows[i], x + 1)
                        ELSE document.rows[i] ]_vars

\* C30 - as stated: o opens a new empty row immediately below the current
\* row and O immediately above it, whatever the length of the current row:
\* the texts of the existing rows are unchanged and in order, the row count
\* grows by one, the mode is Insert and the cursor is at column 0 of the new
\* empty row
C30_OpenLineBelowOrAbove ==
    [][ NormalGets({ KeyChar("o"), KeyChar("O") }) =>
           LET r == current_row_index(Ed)
               at == IF last_op'.key = KeyChar("o") THEN r + 1 ELSE r
           IN  /\ ~ panicked'
               /\ document'.rows =
                     Take(document.rows, at) \o << EmptyRow >> \o Skip(document.rows, at)
               /\ mode' = "Insert"
               /\ current_row_index(Ed') = at
               /\ current_x_position(Ed') = 0 ]_vars


-----------------------------------------------------------------------------
(* SpecDelete: deleting lines.  The document has up to ViewMaxRows lines,   *)
(* each of its own length, more than the screen shows; the user moves with  *)
(* j and k and deletes the line under the cursor with d.                    *)

\* the file of the lines a, aa, aaa, ... up to n lines
RECURSIVE GrowingLines(_)
GrowingLines(n) ==
    IF n = 0 THEN << >> ELSE Append(GrowingLines(n - 1), TextOfLen(n))

InitDelete ==
    /\ EditorStarts({ WriteFile(NoFiles, F, JoinLines(GrowingLines(n))) :
                        n \in 1..ViewMaxRows }, { F })
    /\ ~ panicked
    /\ num_rows(document.rows) >= 1
    /\ last_op = [op |-> "new", key |-> KeyOther]
    /\ ctor = [by |-> "editor", n |-> Len(document.rows), saved |-> document.rows]

\* a key in Normal mode
DeleteKey(key) ==
    /\ Running
    /\ ~ is_receiving_command(Ed)
    /\ mode = "Normal"
    /\ Install(process_keystroke(refresh_screen(Ed), key, TRUE))
    /\ last_op' = [op |-> "normal", key |-> key]
    /\ UNCHANGED ctor

NextDelete ==
    \/ \E key \in { KeyChar("j"), KeyChar("k") } : DeleteKey(key)
    \/ DeleteKey(KeyChar("d"))

SpecDelete == InitDelete /\ [][NextDelete]_vars

\* C31 - as stated: d in Normal mode removes the row under the cursor (clears
\* its text when it is the only row), leaves all other rows unchanged and in
\* order, and afterwards the cursor is on an existing row, whatever the
\* vertical offset was
C31_DRemovesTheRowUnderTheCursor ==
    [][ (NormalGets({ KeyChar("d") }) /\ has_current_row(Ed)) =>
           LET r == current_row_index(Ed)
           IN  /\ ~ panicked'
               /\ document'.rows =
                     IF Len(document.rows) = 1 THEN << EmptyRow >>
                     ELSE Take(document.rows, r) \o Skip(document.rows, r + 1)
               /\ has_current_row(Ed') ]_vars


\* C32 - as stated: H, M and L move the cursor to column 0 of the first,
\* middle and last row of the visible window: the document row reached lies
\* within the rows visible before the key
\* ([offset.rows, offset.rows + height - 1]), exists in the document, and
\* the vertical offset is unchanged
C32_ScreenJumpsStayInTheWindow ==
    [][ NormalGets({ KeyChar("H"), KeyChar("M"), KeyChar("L") }) =>
           /\ ~ panicked'
           /\ offset'.rows = offset.rows
           /\ current_row_index(Ed') >= offset.rows
           /\ current_row_index(Ed') <= offset.rows + TermHeight - 1
           /\ current_row_index(Ed') < num_rows(document.rows)
           /\ current_x_position(Ed') = 0 ]_vars


-----------------------------------------------------------------------------
(* SpecCarry: counts and commands that take none.  The user types digits,   *)
(* moves with h j k l, and in between presses G, g or Esc.                  *)

CarryKeys == { KeyChar("G"), KeyChar("g"), KeyEsc }

InitCarry == InitMove

NextCarry ==
    \/ \E key \in MotionKeys : ViewKey(key)
    \/ \E key \in CountKeys : ViewKey(key)
    \/ \E key \in CarryKeys : ViewKey(key)

SpecCarry == InitCarry /\ [][NextCarry]_vars

\* C33 - as stated: after any non-digit key has been processed in Normal mode
\* with the command line closed, the repetition buffer is empty: a pending
\* count is never carried across an intervening command to a later motion
C33_CountIsNotCarriedOver ==
    [][ (/\ ~ is_receiving_command(Ed)
         /\ last_op'.op = "normal"
         /\ ~ (last_op'.key.kind = "Char" /\ last_op'.key.c \in AsciiDigits)) =>
           normal_command_buffer' = << >> ]_vars


-----------------------------------------------------------------------------
(* SpecStale: a search followed by deletions.  The user searches for b,     *)
(* walks the matches with n and N, and deletes lines with d.                *)

InitStale == InitSearch

NextStale ==
    \/ \E key \in { KeyChar(SEARCH_PREFIX), KeyChar("n"), KeyChar("N"),
                    KeyChar("j"), KeyEsc } : SearchNormalKey(key)
    \/ SearchNormalKey(KeyChar("d"))
    \/ \E key \in LineKeys({ SearchLine }) : SearchLineKey(key)

SpecStale == InitStale /\ [][NextStale]_vars

\* C34 - as stated: in every reachable state with a non-empty match ring the
\* current match index is smaller than the number of matches and every
\* stored match refers to an existing row (1 <= line number <= num_rows),
\* also after the edits that follow the search
C34_MatchesReferToExistingRows ==
    search_matches # << >> =>
       /\ current_search_match_index < Len(search_matches)
       /\ \A i \in 1..Len(search_matches) :
             /\ 1 <= search_matches[i][1].y
             /\ search_matches[i][1].y <= num_rows(document.rows)


\* C35 - as stated: immediately after :new <path> is submitted the document
\* is a single empty row bound to that path, the mode is Insert, and
\* is_dirty is false
C35_NewDocumentIsClean ==
    [][ Submitted(Colon(NEW_CMD \o << " " >> \o G)) =>
           /\ ~ panicked'
           /\ document' = [rows |-> << EmptyRow >>, filename |-> G]
           /\ mode' = "Insert"
           /\ ~ is_dirty(Ed') ]_vars


\* C36 - as stated: writing the swap file of a document with no bound file
\* name is a successful no-op that creates no file and never fails, so the
\* autosave of the 100th insert-mode edit in an unnamed buffer leaves the
\* editor running
C36_UnnamedAutosaveIsANoOp ==
    [][ (/\ InsertEdits
         /\ document.filename = NoName
         /\ unsaved_edits + 1 >= SWAP_SAVE_EVERY) =>
           /\ ~ panicked'
           /\ ~ should_quit'
           /\ fs' = fs ]_vars


-----------------------------------------------------------------------------
(* SpecZfill: the padding of a line number (utils.rs:21-26).  zfill is a    *)
(* pure function; its arguments are drawn at the start and one step         *)
(* applies it.                                                              *)

ZfillMaxLen == 3
ZfillMaxSize == 4

\* String::repeat
RECURSIVE Repeat(_, _)
Repeat(s, n) == IF n = 0 THEN << >> ELSE s \o Repeat(s, n - 1)

\* utils::zfill.  size - s.len() is a subtraction of usize: below zero it
\* panics where overflow is checked, and where it wraps the repeat of
\* 2^64 - (s.len() - size) copies panics on the capacity of the String
zfill(s, fill_by, size) ==
    IF size = 0 THEN [out |-> << >>, panic |-> FALSE]
    ELSE IF size < Len(s) THEN [out |-> << >>, panic |-> TRUE]
    ELSE [out |-> Repeat(fill_by, size - Len(s)) \o s, panic |-> FALSE]

ZfillStrings == SeqsUpTo({ "1", "2" }, ZfillMaxLen)
ZfillFills == { << "0" >>, << " " >> }

InitZfill ==
    /\ IdleEditor(DocumentDefault, NoFiles)
    /\ ctor = [by |-> "default", n |-> 0]
    /\ \E s \in ZfillStrings, fill_by \in ZfillFills, size \in 0..ZfillMaxSize :
          last_op = [op |-> "input", s |-> s, fill_by |-> fill_by,
                     size |-> size, out |-> << >>]

\* the call zfill(s, fill_by, size)
ApplyZfill ==
    /\ last_op.op = "input"
    /\ LET r == zfill(last_op.s, last_op.fill_by, last_op.size)
       IN  /\ panicked' = r.panic
           /\ last_op' = [last_op EXCEPT !.op = "zfill", !.out = r.out]
    /\ UNCHANGED << document, fs, editor_vars, ctor >>

NextZfill == ApplyZfill

SpecZfill == InitZfill /\ [][NextZfill]_vars

\* C37 - as stated: zfill(s, fill, size) with a one-character fill completes
\* for all s and size: for size = 0 it returns the empty string, otherwise
\* s left-padded with fill to length max(size, length of s), s itself when
\* s has size characters or more
C37_ZfillPadsToSize ==
    last_op.op = "zfill" =>
       /\ ~ panicked
       /\ IF last_op.size = 0 THEN last_op.out = << >>
          ELSE LET pad == Max(last_op.size, Len(last_op.s)) - Len(last_op.s)
               IN  /\ Len(last_op.out) = pad + Len(last_op.s)
                   /\ Skip(last_op.out, pad) = last_op.s
                   /\ \A i \in 1..pad : last_op.out[i] = last_op.fill_by[1]

=============================================================================
